---- MODULE Spec2Model ----
(***************************************************************************)
(* Model of the crane I/O and control core of lab-scale-gantry-crane:      *)
(*   - CraneStateLogger (gantrylib/gantry_state_logger.py): the sampler    *)
(*     and writer threads, the bounded measurement queue and the calls     *)
(*     start_logging / stop_logging / flush_buffer / pause / resume;       *)
(*   - PhysicalCrane (gantrylib/crane.py): getState under get_state_lock   *)
(*     and executeWaypointsPosition;                                       *)
(*   - SerialCraneIOUC (gantrylib/crane_io_uc.py): getStatus on the serial *)
(*     stream of the sensor board;                                         *)
(*   - CartStepper, HoistStepper (gantrylib/motors.py): the conversions    *)
(*     between encoder counts and millimetres;                             *)
(*   - MQTTCientTrajectoryGenerator (gantrylib/trajectory_generator.py)    *)
(*     and MQTTTrajectoryServer (gantrylib/trajectory_server.py): a        *)
(*     trajectory request and its response over the broker.                *)
(* Every thread is a program counter; one action is one atomic step of the *)
(* code (a flag test, a queue operation, a register access).               *)
(***************************************************************************)
EXTENDS Integers, Sequences, FiniteSets, TLC

\* ------------------------------------------------------------------ bounds
\* start_logging calls in one run (each creates a sampler and a writer thread)
MaxStarts == 2
\* buffer_size of the measurement queue (Queue(maxsize=buffer_size))
QSize == 1
\* samples the sampler threads take in one run
MaxSamples == 2
\* values of datetime.now() seen in one run: 0..MaxClock
MaxClock == 1
\* store_state calls that raise in one run
MaxFail == 1

\* waypoints of a trajectory: 2..MaxWp
MaxWp == 3
\* latest schedule time of a waypoint, and the wall clock runs to MaxT + 1
MaxT == 2
\* getState calls made by the threads that poll the crane in one run
MaxCalls == 2
\* readings of time.time() per microsecond
ClockRes == 2
\* chunks that arrive at the serial port in one run
MaxChunks == 3
\* generateTrajectory calls made in one run
MaxReq == 3
\* int(self.timeout * 10): the iterations of generateTrajectory's wait loop
MaxTries == 2
\* messages that other parties publish on a reply topic in one run
MaxForeign == 1
\* zeroWind calls made in one run
MaxZero == 2
\* encoder counts per revolution of either axis (65536 on the rig)
EncoderCounts == 60
\* position_limit of either axis, in mm (700 on the rig)
PositionLimitMm == 4
\* time.time() runs to MaxWall hundredths of a second while the sampler's
\* sleeps are followed
MaxWall == 12

\* cart_pulley_circumference in mm (mm_s_to_rpm = 60 / pulley_circumference)
PulleyCircumference == 40
\* the acceleration limit executeWaypointsPosition writes
AccelMax == 2147483647
\* hoist_pulley_circumference in mm
HoistPulleyCircumference == 66
\* the velocity limit of resetLimits and the default of movePositionMm
DefaultVelocityLimit == 2000
\* logging_interval = 1.0 / logging_rate, in hundredths of a second
LoggingInterval == 1
\* time.sleep(0.1) of the sampler's paused loop, in hundredths of a second
PausePoll == 10
\* window_length of savgol_filter in executeWaypointsPosition
SavgolWindow == 15
\* SerialCraneIOUC.start_byte and SerialCraneIOUC.packet_size
StartByte == 1
PacketSize == 13
\* the byte the dot of SerialCraneIOUC.pattern does not match
Newline == 10

\* machine_id of the logger (the default of CraneStateLogger.__init__)
MachineId == 1
\* the run id under which the logger stores and cleans up its rows
ContinuousRunId == 0

Gens == 1..MaxStarts
SampleIds == 1..MaxSamples

\* a thread's local measurement before it holds one
NoSample == [id |-> 0, ts |-> 0]

VARIABLES
    running,         \* self.running (threading.Event)
    paused,          \* self.paused (threading.Event)
    queue,           \* self.measurement_queue, oldest first
    logging_thread,  \* self.logging_thread: 0 is None, g the thread of start g
    writer_thread,   \* self.writer_thread
    spc,             \* spc[g]: position of the sampler thread of start g
    sm,              \* sm[g]: its local `measurement`
    wpc,             \* wpc[g]: position of the writer thread of start g
    wmeas,           \* wmeas[g]: its local `measurements`
    wseen,           \* wseen[g]: its local `seen_timestamps`
    cpc,             \* position of the thread that calls the logger's API
    fmeas,           \* flush_buffer's local `measurements`
    clock,           \* datetime.now()
    nStarts,         \* start_logging calls made
    nSamples,        \* samples taken (the next sample's id is nSamples + 1)
    nFail,           \* store_state calls that raised
    handed,          \* handed[i]: store_state calls that contained sample i
    stored,          \* stored[i]: of these, the calls that returned normally
    tsOf,            \* tsOf[i]: the timestamp sample i was given
    pauseOpen,       \* pause() was called and neither resume() nor
                     \* stop_logging() since
    start_time,      \* self.start_time
    table,           \* the rows of the database table `measurement`
    emptyCalls       \* store_state calls that were made with an empty batch

logVars == <<running, paused, queue, logging_thread, writer_thread, spc, sm,
             wpc, wmeas, wseen, cpc, fmeas, clock, nStarts, nSamples, nFail,
             handed, stored, tsOf, pauseOpen, start_time, table,
             emptyCalls>>

dbVars == <<start_time, table, emptyCalls>>

VARIABLES
    get_state_lock,  \* PhysicalCrane.get_state_lock: "free" or its holder
    lockGen,         \* acquisitions of get_state_lock so far
    gpc,             \* gpc[c]: position of thread c inside PhysicalCrane.getState
    stamps,          \* stamps[c]: for each read of the call, lockGen when it was made
    snapshot,        \* snapshot[c]: the stamps of the tuple c's last call returned
    nCalls,          \* getState calls begun
    cartMode,        \* cart MODE_RAMP_MODE_MOTION
    accelLimit,      \* cart PID_ACCELERATION_LIMIT
    velocityLimit,   \* cart PID_VELOCITY_LIMIT
    positionTarget,  \* cart PID_POSITION_TARGET
    torqueTarget,    \* cart PID_TORQUE_TARGET
    epc,             \* position of the thread inside executeWaypointsPosition
    waypoints,       \* self.waypoints
    wpIdx,           \* index of the loop's waypoint `wp`
    now,             \* the local `now`
    t0,              \* the local `t0`
    tSeries,         \* the local list `t`
    xSeries,         \* the local list `x`
    vSeries,         \* the local list `v`
    thSeries,        \* the local lists `theta`, `omega_arduino` and `a`
    issued,          \* the calls to the axis and the sensor that returned
    result,          \* the tuple executeWaypointsPosition returns
    wall,            \* time.time()
    buffer,          \* SerialCraneIOUC.buffer
    angle,           \* CraneIOUC.angle
    omega,           \* CraneIOUC.omega
    windspeed,       \* CraneIOUC.windspeed
    angle_offset,    \* CraneIOUC.angle_offset
    wind_offset,     \* CraneIOUC.wind_offset
    incoming,        \* the bytes waiting at the serial port (conn.in_waiting)
    ret,             \* the tuple the last getStatus call returned
    nChunks          \* chunks that arrived at the serial port

lockVars == <<get_state_lock, lockGen>>
callerVars == <<gpc, stamps, snapshot, nCalls>>
axisVars == <<cartMode, accelLimit, velocityLimit, positionTarget, torqueTarget>>
execVars == <<epc, waypoints, wpIdx, now, t0, tSeries, xSeries, vSeries, thSeries,
              issued, result, wall>>
decVars == <<buffer, angle, omega, windspeed, angle_offset, wind_offset, incoming,
             ret, nChunks>>

VARIABLES
    cartActual,          \* cart PID_POSITION_ACTUAL
    hoistActual,         \* hoist PID_POSITION_ACTUAL
    hoistMode,           \* hoist MODE_RAMP_MODE_MOTION
    hoistAccelLimit,     \* hoist PID_ACCELERATION_LIMIT
    hoistVelocityLimit,  \* hoist PID_VELOCITY_LIMIT
    hoistTarget,         \* hoist PID_POSITION_TARGET
    hoist_max_length,    \* PhysicalCrane.hoist_max_length
    convRet              \* the last value getPositionMm or getRopeLength returned

convVars == <<cartActual, hoistActual, hoistMode, hoistAccelLimit,
              hoistVelocityLimit, hoistTarget, hoist_max_length, convRet>>

VARIABLES
    swake,               \* swake[g]: when the time.sleep of sampler g ends
    resumedAt            \* when resume() was last called on the paused, running
                         \* logger; -1 before that and once a sample has been
                         \* enqueued since

timeVars == <<swake, resumedAt>>

VARIABLES
    rawWind,             \* the wind speed of the last frame getStatus unpacked,
                         \* before the offset is subtracted; 0 before any frame
    nZero                \* zeroWind calls made

zeroVars == <<rawWind, nZero>>

VARIABLES
    tpc,                 \* tpc[c]: position of thread c inside generateTrajectory
    request_id,          \* request_id[c]: its local `request_id`
    tries,               \* tries[c]: iterations its wait loop has left
    response,            \* response[c]: its local `response`
    outcome,             \* outcome[c]: how its last call ended and for which call
    nReq,                \* generateTrajectory calls made
    subs,                \* the reply topics the client is subscribed to
    requests,            \* the requests on their way to the server
    toClient,            \* the messages on their way to the client
    responses,           \* MQTTCientTrajectoryGenerator._responses
    published,           \* everything published on a reply topic so far
    nForeign             \* messages other parties published on a reply topic

mqttVars == <<tpc, request_id, tries, response, outcome, nReq, subs, requests,
              toClient, responses, published, nForeign>>

VARIABLES
    dpc,                 \* dpc[t]: position of thread t inside getStatus
    inSrc,               \* inSrc[i]: where in the stream incoming[i] arrived
    bufSrc,              \* bufSrc[i]: where in the stream buffer[i] arrived
    frameChunks,         \* the chunks (by number) that were a frame
    cuts,                \* cuts[k]: getStatus calls that took bytes of chunk k
                         \* out of the buffer
    lastSrc,             \* where the match that was last unpacked began; 0 before
    got,                 \* got[t]: where the frame t's call returns began
    floor,               \* floor[t]: doneMax when t's call began
    doneMax              \* the latest place a call that has returned gave back

srcVars == <<dpc, inSrc, bufSrc, frameChunks, cuts, lastSrc, got, floor, doneMax>>
extVars == <<zeroVars, mqttVars, srcVars>>
craneVars == <<lockVars, callerVars, axisVars, execVars, decVars, convVars, timeVars,
               extVars>>

vars == <<logVars, craneVars>>

\* ------------------------------------------------------- queue.Queue
\* a queue built without a maxsize: it is never full
QueueNeverFull(q) == FALSE

\* Queue.full(): maxsize > 0 and qsize() >= maxsize
QueueFull(q) == Len(q) >= QSize

\* Queue.empty()
QueueEmpty(q) == Len(q) = 0

\* the positions of a worker inside one tick of its loop
SamplerTickPcs == {"getState", "chkFull", "put"}
WriterTickPcs == {"drain", "get", "store"}

SamplerAlive(g) == spc[g] \notin {"idle", "done"}
WriterAlive(g) == wpc[g] \notin {"idle", "done"}

\* the timestamps of a batch
TsOf(batch) == {batch[i].ts : i \in 1..Len(batch)}
IdsOf(batch) == {batch[i].id : i \in 1..Len(batch)}

\* store_state(machine_id, 0, batch) was called with batch
Handed(batch) ==
    [i \in SampleIds |-> IF i \in IdsOf(batch) THEN handed[i] + 1 ELSE handed[i]]

Stored(batch) ==
    [i \in SampleIds |-> IF i \in IdsOf(batch) THEN stored[i] + 1 ELSE stored[i]]

\* a row of the table `measurement`; id is the sample the logger wrote it
\* for, 0 for a row that another writer put there
Row(run_id, machine_id, ts, id) ==
    [run_id |-> run_id, machine_id |-> machine_id, ts |-> ts, id |-> id]

\* copy.write_row((ts, machine_id, run_id, qty, data)) for each sample
RowsOf(batch) ==
    {Row(ContinuousRunId, MachineId, batch[i].ts, batch[i].id) : i \in 1..Len(batch)}

\* rows of other runs, of other machines and of earlier sessions
ForeignRows ==
    {Row(r, m, ts, 0) : r \in {ContinuousRunId, ContinuousRunId + 1},
                        m \in {MachineId, MachineId + 1},
                        ts \in {-1, 0}}

\* a guard that lets every batch through
AnyBatch(batch) == TRUE

\* `if measurements:` in flush_buffer and _writer_loop
HasMeasurements(batch) == batch # <<>>

\* the count of empty store_state calls after a call with batch
EmptyCalls(batch) == IF batch = <<>> THEN emptyCalls + 1 ELSE emptyCalls

\* a DELETE that does not look at the timestamp
CleanupSelectsAnyTime(row) ==
    /\ row.run_id = ContinuousRunId
    /\ row.machine_id = MachineId

\* DELETE FROM measurement WHERE run_id = 0 AND ts >= %s AND machine_id = %s
CleanupSelects(row) ==
    /\ row.run_id = ContinuousRunId
    /\ row.ts >= start_time
    /\ row.machine_id = MachineId

\* ------------------------------------------------------------------ Init
LoggerInit ==
    /\ running = FALSE
    /\ paused = FALSE
    /\ queue = <<>>
    /\ logging_thread = 0
    /\ writer_thread = 0
    /\ spc = [g \in Gens |-> "idle"]
    /\ sm = [g \in Gens |-> NoSample]
    /\ wpc = [g \in Gens |-> "idle"]
    /\ wmeas = [g \in Gens |-> <<>>]
    /\ wseen = [g \in Gens |-> {}]
    /\ cpc = "ready"
    /\ fmeas = <<>>
    /\ clock = 0
    /\ nStarts = 0
    /\ nSamples = 0
    /\ nFail = 0
    /\ handed = [i \in SampleIds |-> 0]
    /\ stored = [i \in SampleIds |-> 0]
    /\ tsOf = [i \in SampleIds |-> 0]
    /\ pauseOpen = FALSE
    /\ start_time = clock
    /\ table = ForeignRows
    /\ emptyCalls = 0

\* --------------------------------------------------------- the API calls
\* start_logging: sets running, clears paused, creates and starts both threads
StartLogging ==
    /\ cpc = "ready"
    /\ nStarts < MaxStarts
    /\ nStarts' = nStarts + 1
    /\ running' = TRUE
    /\ paused' = FALSE
    /\ logging_thread' = nStarts + 1
    /\ writer_thread' = nStarts + 1
    /\ spc' = [spc EXCEPT ![nStarts + 1] = "chkRun"]
    /\ wpc' = [wpc EXCEPT ![nStarts + 1] = "chkRun"]
    /\ UNCHANGED craneVars
    /\ UNCHANGED dbVars
    /\ UNCHANGED <<tsOf, queue, sm, wmeas, wseen, cpc, fmeas, clock, nSamples, nFail,
                   handed, stored, pauseOpen>>

\* stop_logging, up to the first join: clears paused, then running
StopBegin ==
    /\ cpc = "ready"
    /\ paused' = FALSE
    /\ running' = FALSE
    /\ pauseOpen' = FALSE
    /\ cpc' = "stopJoinL"
    /\ UNCHANGED craneVars
    /\ UNCHANGED dbVars
    /\ UNCHANGED <<tsOf, queue, logging_thread, writer_thread, spc, sm, wpc, wmeas,
                   wseen, fmeas, clock, nStarts, nSamples, nFail, handed, stored>>

\* if self.logging_thread and self.logging_thread.is_alive(): join()
StopJoinLogging ==
    /\ cpc = "stopJoinL"
    /\ IF logging_thread = 0 THEN TRUE ELSE ~SamplerAlive(logging_thread)
    /\ cpc' = "stopJoinW"
    /\ UNCHANGED craneVars
    /\ UNCHANGED dbVars
    /\ UNCHANGED <<tsOf, running, paused, queue, logging_thread, writer_thread, spc,
                   sm, wpc, wmeas, wseen, fmeas, clock, nStarts, nSamples, nFail,
                   handed, stored, pauseOpen>>

\* if self.writer_thread and self.writer_thread.is_alive(): join(); return
StopReturn ==
    /\ cpc = "stopJoinW"
    /\ IF writer_thread = 0 THEN TRUE ELSE ~WriterAlive(writer_thread)
    /\ cpc' = "ready"
    /\ UNCHANGED craneVars
    /\ UNCHANGED dbVars
    /\ UNCHANGED <<tsOf, running, paused, queue, logging_thread, writer_thread, spc,
                   sm, wpc, wmeas, wseen, fmeas, clock, nStarts, nSamples, nFail,
                   handed, stored, pauseOpen>>

\* pause: self.paused.set(), and nothing else
Pause ==
    /\ paused' = TRUE
    /\ pauseOpen' = TRUE
    /\ UNCHANGED craneVars
    /\ UNCHANGED dbVars
    /\ UNCHANGED <<tsOf, running, queue, logging_thread, writer_thread, spc, sm, wpc,
                   wmeas, wseen, cpc, fmeas, clock, nStarts, nSamples, nFail,
                   handed, stored>>

\* resume: self.paused.clear()
Resume ==
    /\ paused' = FALSE
    /\ pauseOpen' = FALSE
    /\ UNCHANGED craneVars
    /\ UNCHANGED dbVars
    /\ UNCHANGED <<tsOf, running, queue, logging_thread, writer_thread, spc, sm, wpc,
                   wmeas, wseen, cpc, fmeas, clock, nStarts, nSamples, nFail,
                   handed, stored>>

\* flush_buffer: measurements = []
FlushBegin ==
    /\ cpc = "ready"
    /\ fmeas' = <<>>
    /\ cpc' = "flushLoop"
    /\ UNCHANGED craneVars
    /\ UNCHANGED dbVars
    /\ UNCHANGED <<tsOf, running, paused, queue, logging_thread, writer_thread, spc,
                   sm, wpc, wmeas, wseen, clock, nStarts, nSamples, nFail,
                   handed, stored, pauseOpen>>

\* while not self.measurement_queue.empty():
FlushCheckEmpty ==
    /\ cpc = "flushLoop"
    /\ cpc' = IF QueueEmpty(queue) THEN "flushStore" ELSE "flushGet"
    /\ UNCHANGED craneVars
    /\ UNCHANGED dbVars
    /\ UNCHANGED <<tsOf, running, paused, queue, logging_thread, writer_thread, spc,
                   sm, wpc, wmeas, wseen, fmeas, clock, nStarts, nSamples, nFail,
                   handed, stored, pauseOpen>>

\* measurements.append(self.measurement_queue.get()): get blocks while empty
FlushGet ==
    /\ cpc = "flushGet"
    /\ ~QueueEmpty(queue)
    /\ fmeas' = Append(fmeas, Head(queue))
    /\ queue' = Tail(queue)
    /\ cpc' = "flushLoop"
    /\ UNCHANGED craneVars
    /\ UNCHANGED dbVars
    /\ UNCHANGED <<tsOf, running, paused, logging_thread, writer_thread, spc, sm, wpc,
                   wmeas, wseen, clock, nStarts, nSamples, nFail, handed, stored,
                   pauseOpen>>

\* if measurements: store_state(...) under db_lock, an exception is logged
FlushStore ==
    /\ cpc = "flushStore"
    /\ cpc' = "ready"
    /\ fmeas' = <<>>
    /\ \/ /\ ~HasMeasurements(fmeas)
          /\ UNCHANGED <<handed, stored, nFail, table, emptyCalls>>
       \/ /\ HasMeasurements(fmeas)
          /\ handed' = Handed(fmeas)
          /\ stored' = Stored(fmeas)
          /\ table' = table \cup RowsOf(fmeas)
          /\ emptyCalls' = EmptyCalls(fmeas)
          /\ UNCHANGED nFail
       \/ /\ HasMeasurements(fmeas)
          /\ nFail < MaxFail
          /\ nFail' = nFail + 1
          /\ handed' = Handed(fmeas)
          /\ emptyCalls' = EmptyCalls(fmeas)
          /\ UNCHANGED <<stored, table>>
    /\ UNCHANGED craneVars
    /\ UNCHANGED start_time
    /\ UNCHANGED <<tsOf, running, paused, queue, logging_thread, writer_thread, spc,
                   sm, wpc, wmeas, wseen, clock, nStarts, nSamples, pauseOpen>>

\* cleanup: if self.start_time: cleanup_continuous_logging(start_time,
\* machine_id), which deletes the selected rows; an exception is logged
Cleanup ==
    /\ cpc = "ready"
    /\ \/ table' = {row \in table : ~CleanupSelects(row)}
       \/ UNCHANGED table
    /\ UNCHANGED craneVars
    /\ UNCHANGED <<tsOf, running, paused, queue, logging_thread, writer_thread, spc,
                   sm, wpc, wmeas, wseen, cpc, fmeas, clock, nStarts, nSamples,
                   nFail, handed, stored, pauseOpen, start_time, emptyCalls>>

\* ------------------------------------------------------ _logging_loop
\* an exception that no handler catches ends the thread
SamplerUncaught(g) == spc' = [spc EXCEPT ![g] = "done"]

\* except Exception as e: logging.error(...); the tick goes on to its sleep
SamplerExcept(g) == spc' = [spc EXCEPT ![g] = "chkRun"]

\* while self.running.is_set():
SamplerCheckRunning(g) ==
    /\ spc[g] = "chkRun"
    /\ spc' = [spc EXCEPT ![g] = IF running THEN "chkPaused" ELSE "done"]
    /\ UNCHANGED craneVars
    /\ UNCHANGED dbVars
    /\ UNCHANGED <<tsOf, running, paused, queue, logging_thread, writer_thread, sm,
                   wpc, wmeas, wseen, cpc, fmeas, clock, nStarts, nSamples, nFail,
                   handed, stored, pauseOpen>>

\* a sampler loop that does not test the paused flag
SamplerSkipPaused(g) ==
    /\ spc[g] = "chkPaused"
    /\ spc' = [spc EXCEPT ![g] = "getState"]
    /\ UNCHANGED craneVars
    /\ UNCHANGED dbVars
    /\ UNCHANGED <<tsOf, running, paused, queue, logging_thread, writer_thread, sm,
                   wpc, wmeas, wseen, cpc, fmeas, clock, nStarts, nSamples, nFail,
                   handed, stored, pauseOpen>>

\* while self.paused.is_set(): time.sleep(0.1)
SamplerWaitPaused(g) ==
    /\ spc[g] = "chkPaused"
    /\ spc' = [spc EXCEPT ![g] = IF paused THEN "chkPaused" ELSE "getState"]
    /\ UNCHANGED craneVars
    /\ UNCHANGED dbVars
    /\ UNCHANGED <<tsOf, running, paused, queue, logging_thread, writer_thread, sm,
                   wpc, wmeas, wseen, cpc, fmeas, clock, nStarts, nSamples, nFail,
                   handed, stored, pauseOpen>>

\* self.crane.getState(); ts = datetime.now(); measurement = (ts, ...)
\* an exception of getState is logged and the tick goes on to its sleep
SamplerGetState(g) ==
    /\ spc[g] = "getState"
    /\ \/ /\ nSamples < MaxSamples
          /\ nSamples' = nSamples + 1
          /\ sm' = [sm EXCEPT ![g] = [id |-> nSamples + 1, ts |-> clock]]
          /\ tsOf' = [tsOf EXCEPT ![nSamples + 1] = clock]
          /\ spc' = [spc EXCEPT ![g] = "chkFull"]
       \/ /\ SamplerExcept(g)
          /\ UNCHANGED <<sm, nSamples, tsOf>>
    /\ UNCHANGED craneVars
    /\ UNCHANGED dbVars
    /\ UNCHANGED <<running, paused, queue, logging_thread, writer_thread, wpc,
                   wmeas, wseen, cpc, fmeas, clock, nStarts, nFail, handed,
                   stored, pauseOpen>>

\* if not self.measurement_queue.full(): ... else: warning, the sample is dropped
SamplerCheckFull(g) ==
    /\ spc[g] = "chkFull"
    /\ IF QueueFull(queue)
       THEN /\ spc' = [spc EXCEPT ![g] = "chkRun"]
            /\ sm' = [sm EXCEPT ![g] = NoSample]
       ELSE /\ spc' = [spc EXCEPT ![g] = "put"]
            /\ UNCHANGED sm
    /\ UNCHANGED craneVars
    /\ UNCHANGED dbVars
    /\ UNCHANGED <<tsOf, running, paused, queue, logging_thread, writer_thread, wpc,
                   wmeas, wseen, cpc, fmeas, clock, nStarts, nSamples, nFail,
                   handed, stored, pauseOpen>>

\* self.measurement_queue.put(measurement): put blocks while the queue is full
SamplerPut(g) ==
    /\ spc[g] = "put"
    /\ ~QueueFull(queue)
    /\ queue' = Append(queue, sm[g])
    /\ sm' = [sm EXCEPT ![g] = NoSample]
    /\ spc' = [spc EXCEPT ![g] = "chkRun"]
    /\ UNCHANGED craneVars
    /\ UNCHANGED dbVars
    /\ UNCHANGED <<tsOf, running, paused, logging_thread, writer_thread, wpc, wmeas,
                   wseen, cpc, fmeas, clock, nStarts, nSamples, nFail, handed,
                   stored, pauseOpen>>

\* ---------------------------------------- _logging_loop and its sleeps
\* The sampler loop with the time its sleeps take; the statements between
\* two sleeps take no time.
SleepPcs == {"sleepPaused", "sleepTick"}

\* the argument of time.sleep in the paused loop
PausedSleep == PausePoll

\* while self.paused.is_set(): time.sleep(0.1)
TimedWaitPaused(g) ==
    /\ spc[g] = "chkPaused"
    /\ IF paused
       THEN /\ spc' = [spc EXCEPT ![g] = "sleepPaused"]
            /\ swake' = [swake EXCEPT ![g] = wall + PausedSleep]
       ELSE /\ spc' = [spc EXCEPT ![g] = "getState"]
            /\ UNCHANGED swake
    /\ UNCHANGED <<resumedAt, wall>>
    /\ UNCHANGED <<epc, waypoints, wpIdx, now, t0, tSeries, xSeries, vSeries,
                   thSeries, issued, result>>
    /\ UNCHANGED <<lockVars, callerVars, axisVars, decVars, convVars, dbVars, extVars>>
    /\ UNCHANGED <<tsOf, running, paused, queue, logging_thread, writer_thread, sm,
                   wpc, wmeas, wseen, cpc, fmeas, clock, nStarts, nSamples, nFail,
                   handed, stored, pauseOpen>>

\* start_time = time.time(); getState; put unless the queue is full;
\* elapsed = time.time() - start_time; time.sleep(logging_interval - elapsed)
TimedTick(g) ==
    /\ spc[g] = "getState"
    /\ nSamples < MaxSamples
    /\ nSamples' = nSamples + 1
    /\ tsOf' = [tsOf EXCEPT ![nSamples + 1] = clock]
    /\ IF QueueFull(queue)
       THEN UNCHANGED <<queue, resumedAt>>
       ELSE /\ queue' = Append(queue, [id |-> nSamples + 1, ts |-> clock])
            /\ resumedAt' = -1
    /\ spc' = [spc EXCEPT ![g] = "sleepTick"]
    /\ swake' = [swake EXCEPT ![g] = wall + LoggingInterval]
    /\ UNCHANGED wall
    /\ UNCHANGED <<epc, waypoints, wpIdx, now, t0, tSeries, xSeries, vSeries,
                   thSeries, issued, result>>
    /\ UNCHANGED <<lockVars, callerVars, axisVars, decVars, convVars, dbVars, extVars>>
    /\ UNCHANGED <<running, paused, logging_thread, writer_thread, sm, wpc, wmeas,
                   wseen, cpc, fmeas, clock, nStarts, nFail, handed, stored,
                   pauseOpen>>

\* pause(): self.paused.set()
TimedPause ==
    /\ paused' = TRUE
    /\ pauseOpen' = TRUE
    /\ resumedAt' = -1
    /\ UNCHANGED <<swake, wall>>
    /\ UNCHANGED <<epc, waypoints, wpIdx, now, t0, tSeries, xSeries, vSeries,
                   thSeries, issued, result>>
    /\ UNCHANGED <<lockVars, callerVars, axisVars, decVars, convVars, dbVars, extVars>>
    /\ UNCHANGED <<tsOf, running, queue, logging_thread, writer_thread, spc, sm, wpc,
                   wmeas, wseen, cpc, fmeas, clock, nStarts, nSamples, nFail,
                   handed, stored>>

\* resume(): self.paused.clear(), at the time `wall`
TimedResume ==
    /\ paused' = FALSE
    /\ pauseOpen' = FALSE
    /\ resumedAt' = IF running /\ paused THEN wall ELSE resumedAt
    /\ UNCHANGED <<swake, wall>>
    /\ UNCHANGED <<epc, waypoints, wpIdx, now, t0, tSeries, xSeries, vSeries,
                   thSeries, issued, result>>
    /\ UNCHANGED <<lockVars, callerVars, axisVars, decVars, convVars, dbVars, extVars>>
    /\ UNCHANGED <<tsOf, running, queue, logging_thread, writer_thread, spc, sm, wpc,
                   wmeas, wseen, cpc, fmeas, clock, nStarts, nSamples, nFail,
                   handed, stored>>

\* a time.sleep of the sampler returns
TimedWake(g) ==
    /\ spc[g] \in SleepPcs
    /\ wall >= swake[g]
    /\ spc' = [spc EXCEPT ![g] = IF spc[g] = "sleepPaused" THEN "chkPaused"
                                                           ELSE "chkRun"]
    /\ UNCHANGED <<swake, resumedAt, wall>>
    /\ UNCHANGED <<epc, waypoints, wpIdx, now, t0, tSeries, xSeries, vSeries,
                   thSeries, issued, result>>
    /\ UNCHANGED <<lockVars, callerVars, axisVars, decVars, convVars, dbVars, extVars>>
    /\ UNCHANGED <<tsOf, running, paused, queue, logging_thread, writer_thread, sm,
                   wpc, wmeas, wseen, cpc, fmeas, clock, nStarts, nSamples, nFail,
                   handed, stored, pauseOpen>>

\* a hundredth of a second passes while every sampler sleeps
Elapse ==
    /\ wall < MaxWall
    /\ \A g \in Gens : SamplerAlive(g) => (spc[g] \in SleepPcs /\ wall < swake[g])
    /\ wall' = wall + 1
    /\ UNCHANGED <<swake, resumedAt>>
    /\ UNCHANGED <<epc, waypoints, wpIdx, now, t0, tSeries, xSeries, vSeries,
                   thSeries, issued, result>>
    /\ UNCHANGED <<lockVars, callerVars, axisVars, decVars, convVars, logVars, extVars>>

\* -------------------------------------------------------- _writer_loop
\* while self.running.is_set():
WriterCheckRunning(g) ==
    /\ wpc[g] = "chkRun"
    /\ wpc' = [wpc EXCEPT ![g] = IF running THEN "chkPaused" ELSE "done"]
    /\ UNCHANGED craneVars
    /\ UNCHANGED dbVars
    /\ UNCHANGED <<tsOf, running, paused, queue, logging_thread, writer_thread, spc,
                   sm, wmeas, wseen, cpc, fmeas, clock, nStarts, nSamples, nFail,
                   handed, stored, pauseOpen>>

\* while self.paused.is_set(): time.sleep(0.1)
WriterWaitPaused(g) ==
    /\ wpc[g] = "chkPaused"
    /\ wpc' = [wpc EXCEPT ![g] = IF paused THEN "chkPaused" ELSE "drain"]
    /\ UNCHANGED craneVars
    /\ UNCHANGED dbVars
    /\ UNCHANGED <<tsOf, running, paused, queue, logging_thread, writer_thread, spc,
                   sm, wmeas, wseen, cpc, fmeas, clock, nStarts, nSamples, nFail,
                   handed, stored, pauseOpen>>

\* while not self.measurement_queue.empty():
WriterCheckEmpty(g) ==
    /\ wpc[g] = "drain"
    /\ wpc' = [wpc EXCEPT ![g] = IF QueueEmpty(queue) THEN "store" ELSE "get"]
    /\ UNCHANGED craneVars
    /\ UNCHANGED dbVars
    /\ UNCHANGED <<tsOf, running, paused, queue, logging_thread, writer_thread, spc,
                   sm, wmeas, wseen, cpc, fmeas, clock, nStarts, nSamples, nFail,
                   handed, stored, pauseOpen>>

\* measurement = self.measurement_queue.get() (blocks while empty); it is kept
\* if its timestamp is not in seen_timestamps, else a warning is logged
WriterGet(g) ==
    /\ wpc[g] = "get"
    /\ ~QueueEmpty(queue)
    /\ queue' = Tail(queue)
    /\ IF Head(queue).ts \notin wseen[g]
       THEN /\ wmeas' = [wmeas EXCEPT ![g] = Append(@, Head(queue))]
            /\ wseen' = [wseen EXCEPT ![g] = @ \cup {Head(queue).ts}]
       ELSE UNCHANGED <<wmeas, wseen>>
    /\ wpc' = [wpc EXCEPT ![g] = "drain"]
    /\ UNCHANGED craneVars
    /\ UNCHANGED dbVars
    /\ UNCHANGED <<tsOf, running, paused, logging_thread, writer_thread, spc, sm, cpc,
                   fmeas, clock, nStarts, nSamples, nFail, handed, stored,
                   pauseOpen>>

\* a writer that keeps its batch after store_state returned normally
WriterStoreKeepsBatch(g) ==
    /\ wpc[g] = "store"
    /\ wpc' = [wpc EXCEPT ![g] = "chkRun"]
    /\ \/ /\ ~HasMeasurements(wmeas[g])
          /\ UNCHANGED <<handed, stored, nFail, table, emptyCalls>>
       \/ /\ HasMeasurements(wmeas[g])
          /\ handed' = Handed(wmeas[g])
          /\ stored' = Stored(wmeas[g])
          /\ table' = table \cup RowsOf(wmeas[g])
          /\ emptyCalls' = EmptyCalls(wmeas[g])
          /\ UNCHANGED nFail
       \/ /\ HasMeasurements(wmeas[g])
          /\ nFail < MaxFail
          /\ nFail' = nFail + 1
          /\ handed' = Handed(wmeas[g])
          /\ emptyCalls' = EmptyCalls(wmeas[g])
          /\ UNCHANGED <<stored, table>>
    /\ UNCHANGED craneVars
    /\ UNCHANGED start_time
    /\ UNCHANGED <<tsOf, running, paused, queue, logging_thread, writer_thread, spc,
                   sm, cpc, fmeas, clock, nStarts, nSamples, pauseOpen, wmeas, wseen>>

\* if measurements: store_state under db_lock; on success measurements and
\* seen_timestamps are cleared, on an exception both are kept
WriterStore(g) ==
    /\ wpc[g] = "store"
    /\ wpc' = [wpc EXCEPT ![g] = "chkRun"]
    /\ \/ /\ ~HasMeasurements(wmeas[g])
          /\ UNCHANGED <<wmeas, wseen, handed, stored, nFail, table, emptyCalls>>
       \/ /\ HasMeasurements(wmeas[g])
          /\ handed' = Handed(wmeas[g])
          /\ stored' = Stored(wmeas[g])
          /\ table' = table \cup RowsOf(wmeas[g])
          /\ emptyCalls' = EmptyCalls(wmeas[g])
          /\ wmeas' = [wmeas EXCEPT ![g] = <<>>]
          /\ wseen' = [wseen EXCEPT ![g] = {}]
          /\ UNCHANGED nFail
       \/ /\ HasMeasurements(wmeas[g])
          /\ nFail < MaxFail
          /\ nFail' = nFail + 1
          /\ handed' = Handed(wmeas[g])
          /\ emptyCalls' = EmptyCalls(wmeas[g])
          /\ UNCHANGED <<wmeas, wseen, stored, table>>
    /\ UNCHANGED craneVars
    /\ UNCHANGED start_time
    /\ UNCHANGED <<tsOf, running, paused, queue, logging_thread, writer_thread, spc,
                   sm, cpc, fmeas, clock, nStarts, nSamples, pauseOpen>>

\* ------------------------------------------------------------- the clock
\* datetime.now() moves on
ClockTick ==
    /\ clock < MaxClock
    /\ clock' = clock + 1
    /\ UNCHANGED craneVars
    /\ UNCHANGED dbVars
    /\ UNCHANGED <<tsOf, running, paused, queue, logging_thread, writer_thread, spc,
                   sm, wpc, wmeas, wseen, cpc, fmeas, nStarts, nSamples, nFail,
                   handed, stored, pauseOpen>>

\* ------------------------------------------------- PhysicalCrane.getState
\* the threads that poll the crane: the state logger's sampler and the HMI
Callers == {"logger", "hmi"}

\* the positions of getState between acquiring and releasing the lock
ReadPcs == {"readXc", "readVc", "readXh", "readVh", "decode"}

\* a lock that is never taken
LockAlwaysFree(c) == TRUE

\* with self.get_state_lock: the lock can be acquired when nobody holds it
LockFree(c) == get_state_lock = "free"

\* the statement after each read of getState
NextRead(pc) ==
    CASE pc = "readXc" -> "readVc"
      [] pc = "readVc" -> "readXh"
      [] pc = "readXh" -> "readVh"
      [] pc = "readVh" -> "decode"

\* a thread calls self.crane.getState()
GetStateCall(c) ==
    /\ gpc[c] = "idle"
    /\ nCalls < MaxCalls
    /\ nCalls' = nCalls + 1
    /\ gpc' = [gpc EXCEPT ![c] = "acquire"]
    /\ stamps' = [stamps EXCEPT ![c] = <<>>]
    /\ UNCHANGED <<snapshot, lockVars, axisVars, execVars, logVars, decVars, convVars, timeVars, extVars>>

\* with self.get_state_lock: (blocks while the lock is held)
GetStateAcquire(c) ==
    /\ gpc[c] = "acquire"
    /\ LockFree(c)
    /\ get_state_lock' = c
    /\ lockGen' = lockGen + 1
    /\ gpc' = [gpc EXCEPT ![c] = "readXc"]
    /\ UNCHANGED <<stamps, snapshot, nCalls, axisVars, execVars, logVars, decVars, convVars, timeVars, extVars>>

\* axis reads after a bare acquire(): a read that raises leaves getState
\* with the lock still held
GetStateReadAxisKeepsLock(c) ==
    /\ gpc[c] \in {"readXc", "readVc", "readXh", "readVh"}
    /\ \/ /\ stamps' = [stamps EXCEPT ![c] = Append(@, lockGen)]
          /\ gpc' = [gpc EXCEPT ![c] = NextRead(gpc[c])]
          /\ UNCHANGED <<get_state_lock, snapshot>>
       \/ /\ gpc' = [gpc EXCEPT ![c] = "idle"]
          /\ snapshot' = [snapshot EXCEPT ![c] = <<>>]
          /\ UNCHANGED <<get_state_lock, stamps>>
    /\ UNCHANGED <<lockGen, nCalls, axisVars, execVars, logVars, decVars, convVars, timeVars, extVars>>

\* x_cart, v_cart, x_hoist, v_hoist: one register read each; a read that
\* raises leaves the with block, which releases the lock
GetStateReadAxis(c) ==
    /\ gpc[c] \in {"readXc", "readVc", "readXh", "readVh"}
    /\ \/ /\ stamps' = [stamps EXCEPT ![c] = Append(@, lockGen)]
          /\ gpc' = [gpc EXCEPT ![c] = NextRead(gpc[c])]
          /\ UNCHANGED <<get_state_lock, snapshot>>
       \/ /\ gpc' = [gpc EXCEPT ![c] = "idle"]
          /\ get_state_lock' = "free"
          /\ snapshot' = [snapshot EXCEPT ![c] = <<>>]
          /\ UNCHANGED stamps
    /\ UNCHANGED <<lockGen, nCalls, axisVars, execVars, logVars, decVars, convVars, timeVars, extVars>>

\* (theta, omega, wspeed) = self.crane_io_uc.getState(); return the 7-tuple
GetStateDecode(c) ==
    /\ gpc[c] = "decode"
    /\ gpc' = [gpc EXCEPT ![c] = "idle"]
    /\ get_state_lock' = "free"
    /\ \/ /\ stamps' = [stamps EXCEPT ![c] = Append(@, lockGen)]
          /\ snapshot' = [snapshot EXCEPT ![c] = Append(stamps[c], lockGen)]
       \/ /\ snapshot' = [snapshot EXCEPT ![c] = <<>>]
          /\ UNCHANGED stamps
    /\ UNCHANGED <<lockGen, nCalls, axisVars, execVars, logVars, decVars, convVars, timeVars, extVars>>

\* ------------------------------------- PhysicalCrane.executeWaypointsPosition
Modes == {"torque", "velocity", "position"}

Abs(n) == IF n < 0 THEN -n ELSE n

\* setVelocityLimit(abs(v) * mm_s_to_rpm): the register is written int(vel)
VelocityLimitOf(v) == (Abs(v) * 60) \div PulleyCircumference

\* the positions at which the executor reads an axis or the sensor
ExecReadPcs == {"readStart", "readPosition", "readVelocity", "readSensor"}

\* a call the executor made and that returned: its method, its argument and
\* the loop's waypoint index at the call (0 before the loop)
Call(cmd, arg) == [cmd |-> cmd, arg |-> arg, wp |-> wpIdx]

Issue(cmd, arg) == issued' = Append(issued, Call(cmd, arg))

\* an entry of the lists x, v, theta: the sample it belongs to and where its
\* value comes from ("zero" is the literal 0 of the boundary sample)
Entry(k, from) == [k |-> k, from |-> from]

\* a failing call whose exception is swallowed: the executor goes on to its
\* normal end
ExecSwallow(pc) ==
    /\ epc = pc
    /\ epc' = "setTorqueMode"
    /\ UNCHANGED <<waypoints, wpIdx, now, t0, tSeries, wall>>
    /\ UNCHANGED <<issued, xSeries, vSeries, thSeries, result>>
    /\ UNCHANGED <<axisVars, lockVars, callerVars, logVars, decVars, convVars, timeVars, extVars>>

\* the call raises: the exception leaves executeWaypointsPosition at once
ExecRaise(pc) ==
    /\ epc = pc
    /\ epc' = "raised"
    /\ UNCHANGED <<waypoints, wpIdx, now, t0, tSeries, wall>>
    /\ UNCHANGED <<issued, xSeries, vSeries, thSeries, result>>
    /\ UNCHANGED <<axisVars, lockVars, callerVars, logVars, decVars, convVars, timeVars, extVars>>

\* self.cartStepper.setPositionMode()
ExecSetPositionMode ==
    \/ /\ epc = "idle"
       /\ cartMode' = "position"
       /\ Issue("setPositionMode", 0)
       /\ epc' = "readStart"
       /\ UNCHANGED <<accelLimit, velocityLimit, positionTarget, torqueTarget>>
       /\ UNCHANGED <<waypoints, wpIdx, now, t0, tSeries, wall>>
       /\ UNCHANGED <<xSeries, vSeries, thSeries, result>>
       /\ UNCHANGED <<lockVars, callerVars, logVars, decVars, convVars, timeVars, extVars>>
    \/ ExecRaise("idle")

\* an executor that records no boundary sample
ExecReadStartEmpty ==
    /\ epc = "readStart"
    /\ Issue("getPositionMm", 0)
    /\ tSeries' = <<>>
    /\ xSeries' = <<>>
    /\ vSeries' = <<>>
    /\ thSeries' = <<>>
    /\ epc' = "resetBuffer"
    /\ UNCHANGED <<waypoints, wpIdx, now, t0, wall, result>>
    /\ UNCHANGED <<axisVars, lockVars, callerVars, logVars, decVars, convVars, timeVars, extVars>>

\* t = [0]; x = [self.cartStepper.getPositionMm()]; v = [0]; theta = [0];
\* omega_arduino = [0]; a = [0]
ExecReadStart ==
    \/ /\ epc = "readStart"
       /\ Issue("getPositionMm", 0)
       /\ tSeries' = <<0>>
       /\ xSeries' = <<Entry(0, "axis")>>
       /\ vSeries' = <<Entry(0, "zero")>>
       /\ thSeries' = <<Entry(0, "zero")>>
       /\ epc' = "resetBuffer"
       /\ UNCHANGED <<waypoints, wpIdx, now, t0, wall, result>>
       /\ UNCHANGED <<axisVars, lockVars, callerVars, logVars, decVars, convVars, timeVars, extVars>>
    \/ ExecRaise("readStart")

\* self.crane_io_uc.reset_input_buffer()
ExecResetBuffer ==
    \/ /\ epc = "resetBuffer"
       /\ Issue("reset_input_buffer", 0)
       /\ epc' = "setAccel"
       /\ UNCHANGED <<waypoints, wpIdx, now, t0, tSeries, wall>>
       /\ UNCHANGED <<xSeries, vSeries, thSeries, result>>
       /\ UNCHANGED <<axisVars, lockVars, callerVars, logVars, decVars, convVars, timeVars, extVars>>
    \/ ExecRaise("resetBuffer")

\* self.cartStepper.setAccelLimit(2147483647)
ExecSetAccelLimit ==
    \/ /\ epc = "setAccel"
       /\ accelLimit' = AccelMax
       /\ Issue("setAccelLimit", AccelMax)
       /\ epc' = "setVelocity0"
       /\ UNCHANGED <<cartMode, velocityLimit, positionTarget, torqueTarget>>
       /\ UNCHANGED <<waypoints, wpIdx, now, t0, tSeries, wall>>
       /\ UNCHANGED <<xSeries, vSeries, thSeries, result>>
       /\ UNCHANGED <<lockVars, callerVars, logVars, decVars, convVars, timeVars, extVars>>
    \/ ExecRaise("setAccel")

\* an executor that leaves the velocity limit as it finds it
ExecKeepVelocityLimit ==
    /\ epc = "setVelocity0"
    /\ t0' = wall
    /\ now' = 0
    /\ epc' = "setPosition"
    /\ UNCHANGED <<cartMode, accelLimit, velocityLimit, positionTarget, torqueTarget>>
    /\ UNCHANGED <<waypoints, wpIdx, tSeries, wall>>
    /\ UNCHANGED <<issued, xSeries, vSeries, thSeries, result>>
    /\ UNCHANGED <<lockVars, callerVars, logVars, decVars, convVars, timeVars, extVars>>

\* setVelocityLimit(abs(self.waypoints[1].v * mm_s_to_rpm)); t0 = time.time();
\* now = 0
ExecSetInitialVelocityLimit ==
    \/ /\ epc = "setVelocity0"
       /\ velocityLimit' = VelocityLimitOf(waypoints[2].v)
       /\ Issue("setVelocityLimit", VelocityLimitOf(waypoints[2].v))
       /\ t0' = wall
       /\ now' = 0
       /\ epc' = "setPosition"
       /\ UNCHANGED <<cartMode, accelLimit, positionTarget, torqueTarget>>
       /\ UNCHANGED <<waypoints, wpIdx, tSeries, wall>>
       /\ UNCHANGED <<xSeries, vSeries, thSeries, result>>
       /\ UNCHANGED <<lockVars, callerVars, logVars, decVars, convVars, timeVars, extVars>>
    \/ ExecRaise("setVelocity0")

\* setPositionMm(x) of the cart axis: the position target becomes x
SetPositionMm(x) == positionTarget' = x

\* an executor that targets the next waypoint instead of the last
ExecSetPositionNext ==
    /\ epc = "setPosition"
    /\ SetPositionMm(waypoints[2].x)
    /\ Issue("setPositionMm", waypoints[2].x)
    /\ wpIdx' = 2
    /\ epc' = "wait"
    /\ UNCHANGED <<cartMode, accelLimit, velocityLimit, torqueTarget>>
    /\ UNCHANGED <<waypoints, now, t0, tSeries, wall>>
    /\ UNCHANGED <<xSeries, vSeries, thSeries, result>>
    /\ UNCHANGED <<lockVars, callerVars, logVars, decVars, convVars, timeVars, extVars>>

\* self.cartStepper.setPositionMm(self.waypoints[-1].x); the loop begins at
\* waypoints[1]
ExecSetPosition ==
    \/ /\ epc = "setPosition"
       /\ SetPositionMm(waypoints[Len(waypoints)].x)
       /\ Issue("setPositionMm", waypoints[Len(waypoints)].x)
       /\ wpIdx' = 2
       /\ epc' = "wait"
       /\ UNCHANGED <<cartMode, accelLimit, velocityLimit, torqueTarget>>
       /\ UNCHANGED <<waypoints, now, t0, tSeries, wall>>
       /\ UNCHANGED <<xSeries, vSeries, thSeries, result>>
       /\ UNCHANGED <<lockVars, callerVars, logVars, decVars, convVars, timeVars, extVars>>
    \/ ExecRaise("setPosition")

\* an executor that does not wait for the waypoint's time
ExecNoWait ==
    /\ epc = "wait"
    /\ epc' = "setVelocity"
    /\ UNCHANGED <<waypoints, wpIdx, now, t0, tSeries, wall>>
    /\ UNCHANGED <<issued, xSeries, vSeries, thSeries, result>>
    /\ UNCHANGED <<axisVars, lockVars, callerVars, logVars, decVars, convVars, timeVars, extVars>>

\* while (now < wp.t): now = time.time() - t0
ExecWait ==
    /\ epc = "wait"
    /\ IF now < waypoints[wpIdx].t
       THEN /\ now' = wall - t0
            /\ UNCHANGED epc
       ELSE /\ epc' = "setVelocity"
            /\ UNCHANGED now
    /\ UNCHANGED <<waypoints, wpIdx, t0, tSeries, wall>>
    /\ UNCHANGED <<issued, xSeries, vSeries, thSeries, result>>
    /\ UNCHANGED <<axisVars, lockVars, callerVars, logVars, decVars, convVars, timeVars, extVars>>

\* self.cartStepper.setVelocityLimit(abs(wp.v) * mm_s_to_rpm)
ExecSetVelocityLimit ==
    \/ /\ epc = "setVelocity"
       /\ velocityLimit' = VelocityLimitOf(waypoints[wpIdx].v)
       /\ Issue("setVelocityLimit", VelocityLimitOf(waypoints[wpIdx].v))
       /\ epc' = "logTime"
       /\ UNCHANGED <<cartMode, accelLimit, positionTarget, torqueTarget>>
       /\ UNCHANGED <<waypoints, wpIdx, now, t0, tSeries, wall>>
       /\ UNCHANGED <<xSeries, vSeries, thSeries, result>>
       /\ UNCHANGED <<lockVars, callerVars, logVars, decVars, convVars, timeVars, extVars>>
    \/ ExecRaise("setVelocity")

\* t.append(time.time() - t0)
ExecLogTime ==
    /\ epc = "logTime"
    /\ tSeries' = Append(tSeries, wall - t0)
    /\ epc' = "readPosition"
    /\ UNCHANGED <<waypoints, wpIdx, now, t0, wall>>
    /\ UNCHANGED <<issued, xSeries, vSeries, thSeries, result>>
    /\ UNCHANGED <<axisVars, lockVars, callerVars, logVars, decVars, convVars, timeVars, extVars>>

\* x.append(self.cartStepper.getPositionMm())
ExecReadPosition ==
    \/ /\ epc = "readPosition"
       /\ Issue("getPositionMm", 0)
       /\ xSeries' = Append(xSeries, Entry(wpIdx - 1, "axis"))
       /\ epc' = "readVelocity"
       /\ UNCHANGED <<waypoints, wpIdx, now, t0, tSeries, wall>>
       /\ UNCHANGED <<vSeries, thSeries, result>>
       /\ UNCHANGED <<axisVars, lockVars, callerVars, logVars, decVars, convVars, timeVars, extVars>>
    \/ ExecRaise("readPosition")

\* v.append(self.cartStepper.getVelocity())
ExecReadVelocity ==
    \/ /\ epc = "readVelocity"
       /\ Issue("getVelocity", 0)
       /\ vSeries' = Append(vSeries, Entry(wpIdx - 1, "axis"))
       /\ epc' = "readSensor"
       /\ UNCHANGED <<waypoints, wpIdx, now, t0, tSeries, wall>>
       /\ UNCHANGED <<xSeries, thSeries, result>>
       /\ UNCHANGED <<axisVars, lockVars, callerVars, logVars, decVars, convVars, timeVars, extVars>>
    \/ ExecRaise("readVelocity")

\* new_theta, new_omega, new_wspeed = self.crane_io_uc.getState();
\* theta.append(new_theta); a.append(0); omega_arduino.append(new_omega); the
\* loop goes on to the next waypoint or ends
ExecReadSensor ==
    \/ /\ epc = "readSensor"
       /\ Issue("getState", 0)
       /\ thSeries' = Append(thSeries, Entry(wpIdx - 1, "sensor"))
       /\ IF wpIdx < Len(waypoints)
          THEN /\ wpIdx' = wpIdx + 1
               /\ epc' = "wait"
          ELSE /\ epc' = "setTorqueMode"
               /\ UNCHANGED wpIdx
       /\ UNCHANGED <<waypoints, now, t0, tSeries, wall>>
       /\ UNCHANGED <<xSeries, vSeries, result>>
       /\ UNCHANGED <<axisVars, lockVars, callerVars, logVars, decVars, convVars, timeVars, extVars>>
    \/ ExecRaise("readSensor")

\* an executor that leaves the axis in position mode at the end
ExecSkipTorqueMode ==
    /\ epc = "setTorqueMode"
    /\ epc' = "setTorque"
    /\ UNCHANGED <<waypoints, wpIdx, now, t0, tSeries, wall>>
    /\ UNCHANGED <<issued, xSeries, vSeries, thSeries, result>>
    /\ UNCHANGED <<axisVars, lockVars, callerVars, logVars, decVars, convVars, timeVars, extVars>>

\* self.cartStepper.setTorqueMode()
ExecSetTorqueMode ==
    \/ /\ epc = "setTorqueMode"
       /\ cartMode' = "torque"
       /\ Issue("setTorqueMode", 0)
       /\ epc' = "setTorque"
       /\ UNCHANGED <<accelLimit, velocityLimit, positionTarget, torqueTarget>>
       /\ UNCHANGED <<waypoints, wpIdx, now, t0, tSeries, wall>>
       /\ UNCHANGED <<xSeries, vSeries, thSeries, result>>
       /\ UNCHANGED <<lockVars, callerVars, logVars, decVars, convVars, timeVars, extVars>>
    \/ ExecRaise("setTorqueMode")

\* self.cartStepper.setTorque(0)
ExecSetTorque ==
    \/ /\ epc = "setTorque"
       /\ torqueTarget' = 0
       /\ Issue("setTorque", 0)
       /\ epc' = "postProcess"
       /\ UNCHANGED <<cartMode, accelLimit, velocityLimit, positionTarget>>
       /\ UNCHANGED <<waypoints, wpIdx, now, t0, tSeries, wall>>
       /\ UNCHANGED <<xSeries, vSeries, thSeries, result>>
       /\ UNCHANGED <<lockVars, callerVars, logVars, decVars, convVars, timeVars, extVars>>
    \/ ExecRaise("setTorque")

\* np.round(t, 6) of a clock reading, in microseconds (numpy rounds a tie to
\* the even neighbour)
Round6(t) ==
    LET q == t \div ClockRes
        r == t % ClockRes
    IN  IF 2 * r < ClockRes THEN q
        ELSE IF 2 * r > ClockRes THEN q + 1
        ELSE IF q % 2 = 0 THEN q ELSE q + 1

\* the indices of the distinct values of ts in the order of these values
IndicesByValue(ts, keep) ==
    [n \in 1..Cardinality(keep) |->
        CHOOSE i \in keep :
            Cardinality({j \in keep : Round6(ts[j]) < Round6(ts[i])}) = n - 1]

\* a duplicate filter that keeps the last row of each timestamp
UnIdxLast(ts) ==
    IndicesByValue(ts, {i \in 1..Len(ts) :
        \A j \in (i + 1)..Len(ts) : Round6(ts[j]) # Round6(ts[i])})

\* un, un_idx = np.unique(np.round(np.array(t), 6), return_index=True): the
\* index of the first occurrence of each rounded timestamp, in the order of
\* the sorted timestamps
UnIdx(ts) ==
    IndicesByValue(ts, {i \in 1..Len(ts) :
        \A j \in 1..(i - 1) : Round6(ts[j]) # Round6(ts[i])})

\* np.array(series)[un_idx]
Pick(series, idx) == [n \in 1..Len(idx) |-> series[idx[n]]]

\* the value executeWaypointsPosition has not returned yet
NoResult ==
    [t |-> <<>>, x |-> <<>>, v |-> <<>>, a |-> <<>>, theta |-> <<>>, omega |-> <<>>]

\* the scaling of the series, savgol_filter(np.array(theta), 15, 6), which
\* raises for fewer values than its window, the duplicate filter and the
\* return; a, theta and omega are the lists appended to after each sensor read
ExecPostProcess ==
    /\ epc = "postProcess"
    /\ IF Len(thSeries) < SavgolWindow
       THEN /\ epc' = "raised"
            /\ UNCHANGED result
       ELSE /\ epc' = "returned"
            /\ result' = [t |-> Pick(tSeries, UnIdx(tSeries)),
                          x |-> Pick(xSeries, UnIdx(tSeries)),
                          v |-> Pick(vSeries, UnIdx(tSeries)),
                          a |-> Pick(thSeries, UnIdx(tSeries)),
                          theta |-> Pick(thSeries, UnIdx(tSeries)),
                          omega |-> Pick(thSeries, UnIdx(tSeries))]
    /\ UNCHANGED <<waypoints, wpIdx, now, t0, tSeries, wall>>
    /\ UNCHANGED <<issued, xSeries, vSeries, thSeries>>
    /\ UNCHANGED <<axisVars, lockVars, callerVars, logVars, decVars, convVars, timeVars, extVars>>

\* time.time() moves on
TimePasses ==
    /\ wall < MaxT + 1
    /\ wall' = wall + 1
    /\ UNCHANGED <<epc, waypoints, wpIdx, now, t0, tSeries>>
    /\ UNCHANGED <<issued, xSeries, vSeries, thSeries, result>>
    /\ UNCHANGED <<axisVars, lockVars, callerVars, logVars, decVars, convVars, timeVars, extVars>>

ExecStep ==
    \/ ExecSetPositionMode
    \/ ExecReadStart
    \/ ExecResetBuffer
    \/ ExecSetAccelLimit
    \/ ExecSetInitialVelocityLimit
    \/ ExecSetPosition
    \/ ExecWait
    \/ ExecSetVelocityLimit
    \/ ExecLogTime
    \/ ExecReadPosition
    \/ ExecReadVelocity
    \/ ExecReadSensor
    \/ ExecSetTorqueMode
    \/ ExecSetTorque
    \/ ExecPostProcess

GetStateStep(c) ==
    \/ GetStateCall(c)
    \/ GetStateAcquire(c)
    \/ GetStateReadAxis(c)
    \/ GetStateDecode(c)

\* --------------------------------------------- SerialCraneIOUC.getStatus
\* the byte values told apart: the start byte, the newline and two others
ByteVals == {StartByte, Newline, 2, 3}

PayloadSize == PacketSize - 1

\* payloads: a filler byte throughout, but for one byte at the first or the
\* last place
Payloads ==
    {[i \in 1..PayloadSize |-> IF i = place THEN b ELSE filler] :
        filler \in ByteVals, place \in {1, PayloadSize}, b \in ByteVals}

\* what the microcontroller sends: the start byte and three floats
Frames == {<<StartByte>> \o payload : payload \in Payloads}

\* what arrives at the serial port in one piece: a frame or a stray byte
Chunks == Frames \cup {<<b>> : b \in ByteVals}

\* a pattern whose dot matches every byte (re.DOTALL)
DotMatchesAll(b) == TRUE

\* the dot of the pattern: any byte except a newline
DotMatches(b) == b # Newline

\* self.pattern = re.compile(b'\x01(.{12})') matches at place i of buf
MatchesAt(buf, i) ==
    /\ i + PayloadSize <= Len(buf)
    /\ buf[i] = StartByte
    /\ \A j \in (i + 1)..(i + PayloadSize) : DotMatches(buf[j])

\* self.pattern.findall(buf): the payloads of the non-overlapping matches,
\* found from left to right beginning at place `from`
RECURSIVE FindAll(_, _)
FindAll(buf, from) ==
    LET starts == {i \in from..Len(buf) : MatchesAt(buf, i)}
    IN  IF starts = {} THEN <<>>
        ELSE LET i == CHOOSE k \in starts : \A m \in starts : k <= m
             IN  <<SubSeq(buf, i + 1, i + PayloadSize)>>
                    \o FindAll(buf, i + PacketSize)

\* buf.split(sep)[-1]: what follows the last of the non-overlapping
\* occurrences of sep, found from left to right beginning at place `from`
RECURSIVE SplitLast(_, _, _)
SplitLast(buf, sep, from) ==
    LET found == {i \in from..(Len(buf) - Len(sep) + 1) :
                    SubSeq(buf, i, i + Len(sep) - 1) = sep}
    IN  IF found = {} THEN SubSeq(buf, from, Len(buf))
        ELSE LET i == CHOOSE k \in found : \A m \in found : k <= m
             IN  SplitLast(buf, sep, i + Len(sep))

\* one of the three values struct.unpack('<fff', last) yields: the four
\* bytes of the n-th group, the first byte the least significant
Unpack(payload, n) ==
    payload[4 * n - 3] + 256 * payload[4 * n - 2] + 65536 * payload[4 * n - 1]
        + 16777216 * payload[4 * n]

\* a chunk arrives at the serial port
Arrive(chunk) ==
    /\ nChunks < MaxChunks
    /\ nChunks' = nChunks + 1
    /\ incoming' = incoming \o chunk
    /\ UNCHANGED <<buffer, angle, omega, windspeed, angle_offset, wind_offset, ret>>
    /\ UNCHANGED <<lockVars, callerVars, axisVars, execVars, logVars, convVars, timeVars,
                   zeroVars, mqttVars>>

\* a getStatus that empties a buffer in which it finds no match
GetStatusDropsUnmatched ==
    LET buf == buffer \o incoming
        matches == FindAll(buf, 1)
        last == matches[Len(matches)]
    IN  /\ incoming' = <<>>
        /\ IF matches # <<>>
           THEN /\ buffer' = SplitLast(buf, last, 1)
                /\ angle' = Unpack(last, 1) - angle_offset
                /\ omega' = Unpack(last, 2)
                /\ windspeed' = Unpack(last, 3) - wind_offset
                /\ rawWind' = Unpack(last, 3)
           ELSE /\ buffer' = <<>>
                /\ UNCHANGED <<angle, omega, windspeed, rawWind>>
        /\ ret' = <<angle', omega', windspeed'>>
        /\ UNCHANGED <<angle_offset, wind_offset, nChunks, nZero>>
        /\ UNCHANGED <<lockVars, callerVars, axisVars, execVars, logVars, convVars, timeVars,
                     mqttVars>>

\* getStatus, under get_status_lock: the waiting bytes are appended to the
\* buffer; with a match the last one is unpacked and the buffer cut behind
\* it, without one the values of the last call are returned
GetStatus ==
    LET buf == buffer \o incoming
        matches == FindAll(buf, 1)
        last == matches[Len(matches)]
    IN  /\ incoming' = <<>>
        /\ IF matches # <<>>
           THEN /\ buffer' = SplitLast(buf, last, 1)
                /\ angle' = Unpack(last, 1) - angle_offset
                /\ omega' = Unpack(last, 2)
                /\ windspeed' = Unpack(last, 3) - wind_offset
                /\ rawWind' = Unpack(last, 3)
           ELSE /\ buffer' = buf
                /\ UNCHANGED <<angle, omega, windspeed, rawWind>>
        /\ ret' = <<angle', omega', windspeed'>>
        /\ UNCHANGED <<angle_offset, wind_offset, nChunks, nZero>>
        /\ UNCHANGED <<lockVars, callerVars, axisVars, execVars, logVars, convVars, timeVars,
                     mqttVars>>

\* zeroWind: _, _, windspeed = self.getStatus(); then
\* self.wind_offset = windspeed + self.wind_offset
ZeroWind ==
    LET buf == buffer \o incoming
        matches == FindAll(buf, 1)
        last == matches[Len(matches)]
    IN  /\ nZero < MaxZero
        /\ nZero' = nZero + 1
        /\ incoming' = <<>>
        /\ IF matches # <<>>
           THEN /\ buffer' = SplitLast(buf, last, 1)
                /\ angle' = Unpack(last, 1) - angle_offset
                /\ omega' = Unpack(last, 2)
                /\ windspeed' = Unpack(last, 3) - wind_offset
                /\ rawWind' = Unpack(last, 3)
           ELSE /\ buffer' = buf
                /\ UNCHANGED <<angle, omega, windspeed, rawWind>>
        /\ ret' = <<angle', omega', windspeed'>>
        /\ wind_offset' = windspeed' + wind_offset
        /\ UNCHANGED <<angle_offset, nChunks>>
        /\ UNCHANGED <<lockVars, callerVars, axisVars, execVars, logVars, convVars, timeVars,
                     mqttVars>>

\* ------------------------------ getStatus called by several threads
\* the threads that call getStatus on one SerialCraneIOUC
DecThreads == {"t1", "t2"}

\* the chunks of a stream of start bytes and one other byte value
ConcChunks == {chunk \in Chunks : \A i \in 1..Len(chunk) : chunk[i] \in {StartByte, 2}}

\* A place in the stream: byte i of the k-th chunk is at Place(k, i).
Place(k, i) == 16 * k + i
ChunkOf(place) == place \div 16

\* the place in buf at which the last match of the pattern begins, matches
\* found from left to right beginning at place `from`; `sofar` when there is none
RECURSIVE LastMatchStart(_, _, _)
LastMatchStart(buf, from, sofar) ==
    LET starts == {i \in from..Len(buf) : MatchesAt(buf, i)}
    IN  IF starts = {} THEN sofar
        ELSE LET i == CHOOSE k \in starts : \A m \in starts : k <= m
             IN  LastMatchStart(buf, i + PacketSize, i)

SrcInit ==
    /\ dpc = [t \in DecThreads |-> "idle"]
    /\ inSrc = <<>>
    /\ bufSrc = <<>>
    /\ frameChunks = {}
    /\ cuts = [k \in 1..MaxChunks |-> 0]
    /\ lastSrc = 0
    /\ got = [t \in DecThreads |-> 0]
    /\ floor = [t \in DecThreads |-> 0]
    /\ doneMax = 0

\* a chunk arrives at the serial port, and where its bytes are in the stream
ArriveAt(chunk) ==
    /\ Arrive(chunk)
    /\ inSrc' = inSrc \o [i \in 1..Len(chunk) |-> Place(nChunks + 1, i)]
    /\ frameChunks' = IF chunk \in Frames THEN frameChunks \cup {nChunks + 1}
                                          ELSE frameChunks
    /\ UNCHANGED <<dpc, bufSrc, cuts, lastSrc, got, floor, doneMax>>

\* a thread calls getStatus and waits for get_status_lock
DecCall(t) ==
    /\ dpc[t] = "idle"
    /\ dpc' = [dpc EXCEPT ![t] = "acquire"]
    /\ floor' = [floor EXCEPT ![t] = doneMax]
    /\ UNCHANGED <<inSrc, bufSrc, frameChunks, cuts, lastSrc, got, doneMax>>
    /\ UNCHANGED <<logVars, lockVars, callerVars, axisVars, execVars, decVars,
                   convVars, timeVars, zeroVars, mqttVars>>

\* with self.get_status_lock: the body of getStatus, by one thread at a time;
\* the bytes the call leaves in the buffer are a suffix of those it saw
DecBody(t) ==
    LET buf == buffer \o incoming
        src == bufSrc \o inSrc
        taken == {ChunkOf(src[i]) : i \in 1..(Len(buf) - Len(buffer'))}
    IN  /\ dpc[t] = "acquire"
        /\ GetStatus
        /\ dpc' = [dpc EXCEPT ![t] = "return"]
        /\ inSrc' = <<>>
        /\ bufSrc' = SubSeq(src, Len(buf) - Len(buffer') + 1, Len(buf))
        /\ cuts' = [k \in 1..MaxChunks |-> IF k \in taken THEN cuts[k] + 1 ELSE cuts[k]]
        /\ lastSrc' = IF FindAll(buf, 1) # <<>> THEN src[LastMatchStart(buf, 1, 0)]
                                               ELSE lastSrc
        /\ got' = [got EXCEPT ![t] = lastSrc']
        /\ UNCHANGED <<frameChunks, floor, doneMax>>

\* the call returns self.angle, self.omega, self.windspeed
DecReturn(t) ==
    /\ dpc[t] = "return"
    /\ dpc' = [dpc EXCEPT ![t] = "idle"]
    /\ doneMax' = IF got[t] > doneMax THEN got[t] ELSE doneMax
    /\ UNCHANGED <<inSrc, bufSrc, frameChunks, cuts, lastSrc, got, floor>>
    /\ UNCHANGED <<logVars, lockVars, callerVars, axisVars, execVars, decVars,
                   convVars, timeVars, zeroVars, mqttVars>>

\* ------------------------- MQTTCientTrajectoryGenerator, MQTTTrajectoryServer
\* the threads that call generateTrajectory on one generator
Clients == {"a", "b"}

RequestIds == 1..MaxReq

\* the start and stop values a request asks for
Args == {1, 2}

\* the local `response` before a payload is found, and a free place of _responses
NoPayload == <<"none">>

\* an id that was handed out before
SameRequestId(n) == 1

\* request_id = str(uuid.uuid4()): the id of the n-th call, a fresh one
NewRequestId(n) == n

\* reply_topic = f"trajectory/response/{request_id}"
ReplyTopic(id) == <<"trajectory", "response", id>>

\* msg.topic.split("/")[-1]
TopicKey(topic) == topic[Len(topic)]

\* what generator.generateTrajectory(start, stop) returns for the request
\* of call `call`
Trajectory(arg, call) == [arg |-> arg, call |-> call]

\* pickle.dumps(obj), and a payload that is no pickle
Pickle(obj) == <<"pickle", obj>>
Garbage == <<"garbage">>

IsPickle(payload) == payload[1] = "pickle"

\* pickle.loads(response)
Unpickle(payload) == payload[2]

\* the payloads another party publishes: a trajectory no call asked for,
\* and bytes that are no pickle
ForeignPayloads == {Pickle(Trajectory(0, 0)), Garbage}

NoOutcome == [kind |-> "none", val |-> 0, call |-> 0]

MqttInit ==
    /\ tpc = [c \in Clients |-> "idle"]
    /\ request_id = [c \in Clients |-> 0]
    /\ tries = [c \in Clients |-> 0]
    /\ response = [c \in Clients |-> NoPayload]
    /\ outcome = [c \in Clients |-> NoOutcome]
    /\ nReq = 0
    /\ subs = {}
    /\ requests = {}
    /\ toClient = {}
    /\ responses = [id \in RequestIds |-> NoPayload]
    /\ published = {}
    /\ nForeign = 0

\* the broker takes a message on a reply topic: it is sent on to the client
\* if the client is subscribed to the topic
Publish(topic, payload) ==
    /\ published' = published \cup {[topic |-> topic, payload |-> payload]}
    /\ toClient' = IF topic \in subs
                   THEN toClient \cup {[topic |-> topic, payload |-> payload]}
                   ELSE toClient

\* generateTrajectory: request_id = str(uuid.uuid4());
\* self._client.subscribe(reply_topic)
GenSubscribe(c) ==
    /\ tpc[c] = "idle"
    /\ nReq < MaxReq
    /\ nReq' = nReq + 1
    /\ request_id' = [request_id EXCEPT ![c] = NewRequestId(nReq + 1)]
    /\ subs' = subs \cup {ReplyTopic(request_id'[c])}
    /\ outcome' = [outcome EXCEPT ![c] = [NoOutcome EXCEPT !.call = nReq + 1]]
    /\ tpc' = [tpc EXCEPT ![c] = "publish"]
    /\ UNCHANGED <<tries, response, requests, toClient, responses, published,
                   nForeign>>
    /\ UNCHANGED <<logVars, lockVars, callerVars, axisVars, execVars, decVars,
                   convVars, timeVars, zeroVars, srcVars>>

\* self._client.publish(self.request_topic, json.dumps(payload));
\* response = None
GenPublish(c, arg) ==
    /\ tpc[c] = "publish"
    /\ requests' = requests \cup
            {[start |-> arg, request_id |-> request_id[c], call |-> outcome[c].call]}
    /\ response' = [response EXCEPT ![c] = NoPayload]
    /\ tries' = [tries EXCEPT ![c] = MaxTries]
    /\ tpc' = [tpc EXCEPT ![c] = "wait"]
    /\ UNCHANGED <<request_id, outcome, nReq, subs, toClient, responses, published,
                   nForeign>>
    /\ UNCHANGED <<logVars, lockVars, callerVars, axisVars, execVars, decVars,
                   convVars, timeVars, zeroVars, srcVars>>

\* for _ in range(int(self.timeout * 10)): with self._lock: if request_id in
\* self._responses: response = self._responses.pop(request_id); break
\* and else threading.Event().wait(0.1)
GenWait(c) ==
    /\ tpc[c] = "wait"
    /\ IF tries[c] = 0
       THEN /\ tpc' = [tpc EXCEPT ![c] = "unsubscribe"]
            /\ UNCHANGED <<tries, response, responses>>
       ELSE IF responses[request_id[c]] # NoPayload
       THEN /\ response' = [response EXCEPT ![c] = responses[request_id[c]]]
            /\ responses' = [responses EXCEPT ![request_id[c]] = NoPayload]
            /\ tpc' = [tpc EXCEPT ![c] = "unsubscribe"]
            /\ UNCHANGED tries
       ELSE /\ tries' = [tries EXCEPT ![c] = @ - 1]
            /\ UNCHANGED <<tpc, response, responses>>
    /\ UNCHANGED <<request_id, outcome, nReq, subs, requests, toClient, published,
                   nForeign>>
    /\ UNCHANGED <<logVars, lockVars, callerVars, axisVars, execVars, decVars,
                   convVars, timeVars, zeroVars, srcVars>>

\* self._client.unsubscribe(reply_topic)
GenUnsubscribe(c) ==
    /\ tpc[c] = "unsubscribe"
    /\ subs' = subs \ {ReplyTopic(request_id[c])}
    /\ tpc' = [tpc EXCEPT ![c] = "finish"]
    /\ UNCHANGED <<request_id, tries, response, outcome, nReq, requests, toClient,
                   responses, published, nForeign>>
    /\ UNCHANGED <<logVars, lockVars, callerVars, axisVars, execVars, decVars,
                   convVars, timeVars, zeroVars, srcVars>>

\* if response is None: raise TimeoutError; return pickle.loads(response),
\* which raises on a payload that is no pickle
GenFinish(c) ==
    /\ tpc[c] = "finish"
    /\ tpc' = [tpc EXCEPT ![c] = "idle"]
    /\ outcome' = [outcome EXCEPT ![c] =
            IF response[c] = NoPayload THEN [@ EXCEPT !.kind = "TimeoutError"]
            ELSE IF IsPickle(response[c])
            THEN [@ EXCEPT !.kind = "returned", !.val = Unpickle(response[c])]
            ELSE [@ EXCEPT !.kind = "UnpicklingError"]]
    /\ UNCHANGED <<request_id, tries, response, nReq, subs, requests, toClient,
                   responses, published, nForeign>>
    /\ UNCHANGED <<logVars, lockVars, callerVars, axisVars, execVars, decVars,
                   convVars, timeVars, zeroVars, srcVars>>

\* _on_message: request_id = msg.topic.split("/")[-1];
\* with self._lock: self._responses[request_id] = msg.payload
OnMessage(msg) ==
    /\ msg \in toClient
    /\ toClient' = toClient \ {msg}
    /\ responses' = [responses EXCEPT ![TopicKey(msg.topic)] = msg.payload]
    /\ UNCHANGED <<tpc, request_id, tries, response, outcome, nReq, subs, requests,
                   published, nForeign>>
    /\ UNCHANGED <<logVars, lockVars, callerVars, axisVars, execVars, decVars,
                   convVars, timeVars, zeroVars, srcVars>>

\* MQTTTrajectoryServer.on_message: the result of generateTrajectory is
\* pickled and published on trajectory/response/<request_id>; an exception
\* is logged and nothing is published
ServerOnMessage(req) ==
    /\ req \in requests
    /\ requests' = requests \ {req}
    /\ \/ Publish(ReplyTopic(req.request_id), Pickle(Trajectory(req.start, req.call)))
       \/ UNCHANGED <<published, toClient>>
    /\ UNCHANGED <<tpc, request_id, tries, response, outcome, nReq, subs, responses,
                   nForeign>>
    /\ UNCHANGED <<logVars, lockVars, callerVars, axisVars, execVars, decVars,
                   convVars, timeVars, zeroVars, srcVars>>

\* another party publishes on a reply topic
ForeignPublish(id, payload) ==
    /\ nForeign < MaxForeign
    /\ nForeign' = nForeign + 1
    /\ Publish(ReplyTopic(id), payload)
    /\ UNCHANGED <<tpc, request_id, tries, response, outcome, nReq, subs, requests,
                   responses>>
    /\ UNCHANGED <<logVars, lockVars, callerVars, axisVars, execVars, decVars,
                   convVars, timeVars, zeroVars, srcVars>>

\* ------------------------------------------- Motor: counts and millimetres
\* Lengths in mm are kept exactly, in the unit 1/EncoderCounts mm: p mm is
\* the integer p * EncoderCounts, and a position of c counts on a pulley of
\* circumference circ is c / mm_to_counts = c * circ / EncoderCounts mm.
Mm(p) == p * EncoderCounts

\* int(n / d) for d > 0: the quotient truncated toward zero
Trunc(n, d) == IF n >= 0 THEN n \div d ELSE -((-n) \div d)

\* self.position_limit_counts =
\*     int(position_limit / self.pulley_circumference * self.encoder_counts)
PositionLimitCounts(circ) == Trunc(PositionLimitMm * EncoderCounts, circ)

\* Motor.getPositionMm: self.getPosition() / self.mm_to_counts
MotorGetPositionMm(counts, circ) == counts * circ

\* CartStepper.getPositionMm: abs(super().getPositionMm() - self.position_limit_mm)
CartStepperGetPositionMm(counts) ==
    Abs(MotorGetPositionMm(counts, PulleyCircumference) - Mm(PositionLimitMm))

\* HoistStepper.getPositionMm: -1 * super().getPositionMm()
HoistStepperGetPositionMm(counts) ==
    -1 * MotorGetPositionMm(counts, HoistPulleyCircumference)

\* Motor.movePosition(pos): the count setPosition writes, int(pos), for a
\* pos of q / circ counts
MotorMovePosition(q, circ) == Trunc(q, circ)

\* HoistStepper.movePosition(pos): super().movePosition(-pos)
HoistStepperMovePosition(q, circ) == MotorMovePosition(-q, circ)

\* Motor.movePositionMm(pos) of the cart: self.movePosition(pos * self.mm_to_counts);
\* pos * mm_to_counts is pos / PulleyCircumference counts in the unit of pos
CartStepperMovePositionMm(pos) == MotorMovePosition(pos, PulleyCircumference)

\* HoistStepper.movePositionMm(pos): super().movePositionMm(-pos), where
\* Motor.movePositionMm calls self.movePosition, HoistStepper's own
HoistStepperMovePositionMm(pos) ==
    HoistStepperMovePosition(-pos, HoistPulleyCircumference)

\* the velocity arguments of movePositionMm
MoveVelocities == {50, DefaultVelocityLimit}

\* the positions movePositionMm is called with: whole millimetres within
\* the axis's range, and the value the last call returned
MovePositions == {Mm(p) : p \in 0..PositionLimitMm} \cup {convRet.val}

\* values of config["hoist_max_length"]
HoistMaxLengths == (PositionLimitMm - 1)..(PositionLimitMm + 1)

CartGetPositionMm ==
    /\ convRet' = [op |-> "cartGetPositionMm",
                   val |-> CartStepperGetPositionMm(cartActual)]
    /\ UNCHANGED <<cartActual, hoistActual, hoistMode, hoistAccelLimit,
                   hoistVelocityLimit, hoistTarget, hoist_max_length>>
    /\ UNCHANGED <<lockVars, callerVars, axisVars, execVars, decVars, logVars, timeVars, extVars>>

HoistGetPositionMm ==
    /\ convRet' = [op |-> "hoistGetPositionMm",
                   val |-> HoistStepperGetPositionMm(hoistActual)]
    /\ UNCHANGED <<cartActual, hoistActual, hoistMode, hoistAccelLimit,
                   hoistVelocityLimit, hoistTarget, hoist_max_length>>
    /\ UNCHANGED <<lockVars, callerVars, axisVars, execVars, decVars, logVars, timeVars, extVars>>

\* PhysicalCrane.getRopeLength
GetRopeLength ==
    /\ convRet' = [op |-> "getRopeLength",
                   val |-> Mm(hoist_max_length) - HoistStepperGetPositionMm(hoistActual)]
    /\ UNCHANGED <<cartActual, hoistActual, hoistMode, hoistAccelLimit,
                   hoistVelocityLimit, hoistTarget, hoist_max_length>>
    /\ UNCHANGED <<lockVars, callerVars, axisVars, execVars, decVars, logVars, timeVars, extVars>>

\* cartStepper.movePositionMm(pos, vel): setPositionMode, resetLimits,
\* setVelocityLimit(vel), setPosition(pos * mm_to_counts)
CartMovePositionMm(pos, vel) ==
    /\ cartMode' = "position"
    /\ accelLimit' = AccelMax
    /\ velocityLimit' = vel
    /\ positionTarget' = CartStepperMovePositionMm(pos)
    /\ UNCHANGED torqueTarget
    /\ UNCHANGED <<cartActual, hoistActual, hoistMode, hoistAccelLimit,
                   hoistVelocityLimit, hoistTarget, hoist_max_length, convRet>>
    /\ UNCHANGED <<lockVars, callerVars, execVars, decVars, logVars, timeVars, extVars>>

\* hoistStepper.movePositionMm(pos, vel)
HoistMovePositionMm(pos, vel) ==
    /\ hoistMode' = "position"
    /\ hoistAccelLimit' = AccelMax
    /\ hoistVelocityLimit' = vel
    /\ hoistTarget' = HoistStepperMovePositionMm(pos)
    /\ UNCHANGED <<cartActual, hoistActual, hoist_max_length, convRet>>
    /\ UNCHANGED <<lockVars, callerVars, axisVars, execVars, decVars, logVars, timeVars, extVars>>

\* ------------------------------------------------------------ Waypoint
\* waypoint speeds in mm/s and positions in mm
WpSpeeds == {-40, 20}
WpPositions == {0, 100}

Waypoint(t, x, v) == [t |-> t, x |-> x, v |-> v]

\* trajectories: time-sorted from the first waypoint (t = 0, x = 0, v = 0)
Trajectories ==
    LET Later == {Waypoint(t, x, v) : t \in 1..MaxT, x \in WpPositions, v \in WpSpeeds}
        Sorted(w) == \A i \in 1..(Len(w) - 1) : w[i].t <= w[i + 1].t
        Tails == UNION {[1..n -> Later] : n \in 1..(MaxWp - 1)}
    IN  {<<Waypoint(0, 0, 0)>> \o w : w \in {u \in Tails : Sorted(u)}}

\* trajectories long enough for the filter window: the waypoints up to the
\* split are due at time 1, the later ones at MaxT
LongTrajectories ==
    {<<Waypoint(0, 0, 0)>> \o
        [i \in 1..(SavgolWindow - 1) |->
            Waypoint(IF i <= split THEN 1 ELSE MaxT,
                     IF i = SavgolWindow - 1 THEN 100 ELSE 0,
                     IF i % 2 = 1 THEN -40 ELSE 20)] :
        split \in {0, SavgolWindow \div 2}}

\* ------------------------------------------------------------------ Init
\* the crane before any call, holding no trajectory
CraneAtRest ==
    /\ get_state_lock = "free"
    /\ lockGen = 0
    /\ gpc = [c \in Callers |-> "idle"]
    /\ stamps = [c \in Callers |-> <<>>]
    /\ snapshot = [c \in Callers |-> <<>>]
    /\ nCalls = 0
    /\ accelLimit = 0
    /\ velocityLimit = 6000
    /\ positionTarget = 0
    /\ torqueTarget = 0
    /\ epc = "idle"
    /\ wpIdx = 0
    /\ now = 0
    /\ t0 = 0
    /\ tSeries = <<>>
    /\ xSeries = <<>>
    /\ vSeries = <<>>
    /\ thSeries = <<>>
    /\ issued = <<>>
    /\ result = NoResult
    /\ wall = 0
    /\ buffer = <<>>
    /\ angle = 0
    /\ omega = 0
    /\ windspeed = 0
    /\ angle_offset = 0
    /\ wind_offset = 0
    /\ incoming = <<>>
    /\ ret = <<0, 0, 0>>
    /\ nChunks = 0
    /\ swake = [g \in Gens |-> 0]
    /\ resumedAt = -1
    /\ rawWind = 0
    /\ nZero = 0
    /\ MqttInit
    /\ SrcInit

\* the axes at their home positions, a rope as long as the hoist's travel
AxesAtHome ==
    /\ cartActual = 0
    /\ hoistActual = 0
    /\ hoist_max_length = PositionLimitMm

\* the hoist as HoistStepper.__init__ leaves it; no conversion made yet
HoistConfigured ==
    /\ hoistMode = "position"
    /\ hoistAccelLimit = 0
    /\ hoistVelocityLimit = 50
    /\ hoistTarget = 0
    /\ convRet = [op |-> "none", val |-> 0]

Init ==
    /\ LoggerInit
    /\ CraneAtRest
    /\ HoistConfigured
    /\ AxesAtHome
    /\ cartMode = "torque"
    /\ waypoints = <<>>

\* the crane after setWaypoints(trajectory), its cart in any mode
ExecInit ==
    /\ LoggerInit
    /\ CraneAtRest
    /\ HoistConfigured
    /\ AxesAtHome
    /\ cartMode \in Modes
    /\ waypoints \in Trajectories \cup LongTrajectories

\* the same with a trajectory of two waypoints, for the runs in which other
\* threads poll the crane during the execution
CraneInit ==
    /\ LoggerInit
    /\ CraneAtRest
    /\ HoistConfigured
    /\ AxesAtHome
    /\ cartMode \in Modes
    /\ waypoints \in {w \in Trajectories : Len(w) = 2}

\* ------------------------------------------------------------------ Next
SamplerStep(g) ==
    \/ SamplerCheckRunning(g)
    \/ SamplerWaitPaused(g)
    \/ SamplerGetState(g)
    \/ SamplerCheckFull(g)
    \/ SamplerPut(g)

WriterStep(g) ==
    \/ WriterCheckRunning(g)
    \/ WriterWaitPaused(g)
    \/ WriterCheckEmpty(g)
    \/ WriterGet(g)
    \/ WriterStore(g)

CallerStep ==
    \/ StartLogging
    \/ StopBegin
    \/ StopJoinLogging
    \/ StopReturn
    \/ FlushBegin
    \/ FlushCheckEmpty
    \/ FlushGet
    \/ FlushStore
    \/ Cleanup

Next ==
    \/ CallerStep
    \/ Pause
    \/ Resume
    \/ ClockTick
    \/ \E g \in Gens : SamplerStep(g)
    \/ \E g \in Gens : WriterStep(g)

Spec == Init /\ [][Next]_vars

CraneNext ==
    \/ ExecStep
    \/ \E c \in Callers : GetStateStep(c)
    \/ TimePasses

\* executeWaypointsPosition while other threads call getState
CraneSpec == CraneInit /\ [][CraneNext]_vars

ExecNext ==
    \/ ExecStep
    \/ TimePasses

\* executeWaypointsPosition alone, over every trajectory
ExecSpec == ExecInit /\ [][ExecNext]_vars

DecNext ==
    \/ \E chunk \in Chunks : Arrive(chunk) /\ UNCHANGED srcVars
    \/ GetStatus /\ UNCHANGED srcVars

\* getStatus calls on a serial stream of frames and stray bytes
DecSpec == Init /\ [][DecNext]_vars

\* the axes anywhere within their position limits, with any rope length
ConvInit ==
    /\ LoggerInit
    /\ CraneAtRest
    /\ HoistConfigured
    /\ cartMode = "position"
    /\ waypoints = <<>>
    /\ cartActual \in 0..PositionLimitCounts(PulleyCircumference)
    /\ hoistActual \in (-PositionLimitCounts(HoistPulleyCircumference))..0
    /\ hoist_max_length \in HoistMaxLengths

ConvNext ==
    \/ CartGetPositionMm
    \/ HoistGetPositionMm
    \/ GetRopeLength
    \/ \E pos \in MovePositions, vel \in MoveVelocities : CartMovePositionMm(pos, vel)
    \/ \E pos \in MovePositions, vel \in MoveVelocities : HoistMovePositionMm(pos, vel)

MqttNext ==
    \/ \E c \in Clients :
        \/ GenSubscribe(c)
        \/ \E arg \in Args : GenPublish(c, arg)
        \/ GenWait(c)
        \/ GenUnsubscribe(c)
        \/ GenFinish(c)
    \/ \E msg \in toClient : OnMessage(msg)
    \/ \E req \in requests : ServerOnMessage(req)
    \/ \E id \in RequestIds, payload \in ForeignPayloads : ForeignPublish(id, payload)

\* generateTrajectory calls of two threads on one client, the server and
\* the broker between them
MqttSpec == Init /\ [][MqttNext]_vars

ZeroNext ==
    \/ \E chunk \in Chunks : Arrive(chunk) /\ UNCHANGED srcVars
    \/ GetStatus /\ UNCHANGED srcVars
    \/ ZeroWind /\ UNCHANGED srcVars

ConcNext ==
    \/ \E chunk \in ConcChunks : ArriveAt(chunk)
    \/ \E t \in DecThreads :
        \/ DecCall(t)
        \/ DecBody(t)
        \/ DecReturn(t)

\* getStatus calls of two threads on one serial stream
ConcSpec == Init /\ [][ConcNext]_vars

\* getStatus and zeroWind calls of one thread on a serial stream
ZeroSpec == Init /\ [][ZeroNext]_vars

TimedNext ==
    \/ StartLogging
    \/ TimedPause
    \/ TimedResume
    \/ \E g \in Gens :
        \/ SamplerCheckRunning(g)
        \/ TimedWaitPaused(g)
        \/ TimedTick(g)
        \/ TimedWake(g)
    \/ Elapse

\* the sampler threads and their sleeps while the logger is paused and resumed
TimedSpec == Init /\ [][TimedNext]_vars

\* position reads and moves in millimetres on both axes
ConvSpec == ConvInit /\ [][ConvNext]_vars

\* ---------------------------------------------------------------- claims
\* A worker that is outside a tick does not begin one, and a running
\* logger's worker does not terminate, in a step taken while `open` holds.
NoNewTickWhile(open) ==
    \A g \in Gens :
        /\ (open /\ spc[g] \notin SamplerTickPcs) => spc'[g] \notin SamplerTickPcs
        /\ (open /\ wpc[g] \notin WriterTickPcs) => wpc'[g] \notin WriterTickPcs
        /\ (open /\ running /\ SamplerAlive(g)) => spc'[g] # "done"
        /\ (open /\ running /\ WriterAlive(g)) => wpc'[g] # "done"

\* C1 as stated: after pause(), once each worker has finished the tick it was
\* executing, no worker begins a tick (no snapshot, no enqueue, no
\* store_state) until resume() or stop() is called, and the workers stay alive.
C1_PausedUntilResumeOrStop == [][NoNewTickWhile(pauseOpen)]_vars

\* C1 amended: the same until resume(), stop() or start() is called, that is
\* for as long as the paused flag stays set: start_logging clears it too.
C1_PausedWhileFlagSet == [][NoNewTickWhile(paused)]_vars

\* C1 witness: a running logger is paused, a sampler and a writer wait in
\* their paused loops and a sample waits in the queue.
C1_Witness ==
    /\ paused /\ pauseOpen /\ running
    /\ queue # <<>>
    /\ \E g \in Gens : spc[g] = "chkPaused" /\ wpc[g] = "chkPaused"

\* C2: the queue never holds more than QSize samples, and a sampler step taken
\* while the queue is full leaves the queue as it is; a sampler step only ever
\* appends its own sample at the tail (drop-newest, never evict-oldest).
C2_DropNewest ==
    [][/\ Len(queue') <= QSize
       /\ \A g \in Gens :
            SamplerStep(g) =>
                /\ Len(queue) >= QSize => queue' = queue
                /\ queue' = queue \/ queue' = Append(queue, sm[g])]_vars

\* C2 witness: the queue is full, nothing was ever taken out of it, and one
\* more sample than it holds was taken and is held by no thread: it was dropped.
C2_Witness ==
    /\ Len(queue) = QSize
    /\ nSamples = QSize + 1
    /\ \A g \in Gens : sm[g] = NoSample /\ wmeas[g] = <<>>
    /\ fmeas = <<>>
    /\ \A i \in SampleIds : handed[i] = 0

\* C3: a sampler never waits for queue space: whenever it is at its put, the
\* queue has room.
C3_PutNeverBlocks ==
    \A g \in Gens : spc[g] = "put" => ~QueueFull(queue)

\* C4: when executeWaypointsPosition ends with an exception (here: one raised
\* after the position target was issued), the cart is in torque mode with
\* torque target 0.
C4_TorqueZeroOnFailure ==
    (epc = "raised" /\ wpIdx >= 2) => (cartMode = "torque" /\ torqueTarget = 0)

\* C5: a thread is between the first and the last read of getState only while
\* it holds get_state_lock, and all reads of a call, and of a returned tuple,
\* were made during one and the same holding of the lock.
C5_SnapshotAtomic ==
    \A c \in Callers :
        /\ gpc[c] \in ReadPcs => get_state_lock = c
        /\ \A i \in 1..Len(stamps[c]) : gpc[c] \in ReadPcs => stamps[c][i] = lockGen
        /\ \A i, j \in 1..Len(snapshot[c]) : snapshot[c][i] = snapshot[c][j]

\* C5 witness: one thread has made its four axis reads inside getState while
\* the other has called getState and waits for the lock.
C5_Witness ==
    \E c, d \in Callers :
        /\ c # d
        /\ gpc[c] = "decode" /\ Len(stamps[c]) = 4
        /\ gpc[d] = "acquire"

\* C6: the executor makes no axis or sensor read while another thread is
\* between the first and the last read of a getState call.
C6_ExecutorReadsUnderLock ==
    [][(epc \in ExecReadPcs /\ epc' # epc) =>
            \A c \in Callers : ~(gpc[c] \in ReadPcs /\ Len(stamps[c]) >= 1)]_vars

\* C7: when pause() returns the queue is empty.
C7_PauseFlushes == [][Pause => queue' = <<>>]_vars

\* a step of a logger thread or of the pending stop_logging call
ThreadStep ==
    \/ StopJoinLogging
    \/ StopReturn
    \/ \E g \in Gens : SamplerStep(g)
    \/ \E g \in Gens : WriterStep(g)

\* C8: a stop() that was called returns (here: of a logger started once):
\* while stop_logging waits in a join, it or one of the logger's threads can
\* take a step.
C8_StopReturns ==
    (nStarts = 1 /\ cpc \in {"stopJoinL", "stopJoinW"}) => ENABLED ThreadStep

\* C9: when stop() returns, no sample is left in the queue and every sample
\* of a writer's pending batch has been passed to store_state.
C9_StopLeavesNothing ==
    [][StopReturn =>
        /\ queue' = <<>>
        /\ \A g \in Gens : \A i \in IdsOf(wmeas'[g]) : handed'[i] > 0]_vars

\* C10: of two samples with the same timestamp, at most one is passed to
\* store_state.
C10_OneRowPerTimestamp ==
    \A i, j \in SampleIds :
        (i < j /\ j <= nSamples /\ tsOf[i] = tsOf[j])
            => ~(handed[i] > 0 /\ handed[j] > 0)

\* C11: a batch whose store_state call raised is discarded: no sample is
\* passed to store_state a second time by a later writer tick.
C11_FailedBatchDiscarded ==
    \A i \in SampleIds : handed[i] <= 1

\* C12: no exception of getState, store_state or cleanup_continuous_logging
\* ends a worker or reaches the caller: a worker terminates only at its loop
\* test with the running flag clear, the step after a failed call leaves the
\* worker in its loop, and every API call comes back to its caller.
C12_FaultsSwallowed ==
    [][/\ \A g \in Gens :
            /\ (SamplerAlive(g) /\ ~SamplerAlive(g)') =>
                    (spc[g] = "chkRun" /\ ~running)
            /\ (WriterAlive(g) /\ ~WriterAlive(g)') =>
                    (wpc[g] = "chkRun" /\ ~running)
            /\ (WriterStore(g) /\ nFail' # nFail) => wpc'[g] = "chkRun"
       /\ (FlushStore \/ Cleanup) => cpc' = "ready"]_vars

\* C12 witness: a store_state call has raised, the logger is still running and
\* the sampler and the writer of a start are both inside a later tick, the
\* writer about to store a batch.
C12_Witness ==
    /\ nFail = MaxFail
    /\ running
    /\ \E g \in Gens :
        /\ spc[g] \in SamplerTickPcs
        /\ wpc[g] = "store" /\ wmeas[g] # <<>>

\* C13: a cleanup() that succeeds removes every row with run id 0, this
\* machine id and a timestamp >= start_time, among them every row the logger
\* wrote, and removes no row with another run id, another machine id or an
\* earlier timestamp; a cleanup() that fails removes nothing.
C13_CleanupFrame ==
    [][Cleanup =>
        \/ table' = table
        \/ /\ table' \subseteq table
           /\ \A row \in table :
                /\ row.id # 0 => row \notin table'
                /\ (row.run_id = ContinuousRunId /\ row.machine_id = MachineId
                        /\ row.ts >= start_time) => row \notin table'
                /\ (row.run_id # ContinuousRunId \/ row.machine_id # MachineId
                        \/ row.ts < start_time) => row \in table']_vars

\* C13 witness: the logger has stored samples, cleanup() has run since, and
\* what is left in the table are the rows of other runs, other machines and
\* earlier sessions.
C13_Witness ==
    /\ \E i \in SampleIds : stored[i] > 0
    /\ \A row \in table : row.id = 0
    /\ Row(ContinuousRunId, MachineId, 0, 0) \notin table
    /\ Row(ContinuousRunId, MachineId, -1, 0) \in table
    /\ Row(ContinuousRunId + 1, MachineId, 0, 0) \in table
    /\ Row(ContinuousRunId, MachineId + 1, 0, 0) \in table

\* the positions after the loop of executeWaypointsPosition has ended
ExecLoopDonePcs == {"setTorqueMode", "setTorque", "postProcess", "returned"}

\* C14: once executeWaypointsPosition has completed its commands, the cart is
\* in torque mode with torque target 0, setTorqueMode and setTorque(0) are the
\* last two calls it made and were made only then, and they follow the last
\* waypoint's velocity-limit update and the three reads of its sample.
C14_TorqueZeroLast ==
    epc \in {"postProcess", "returned"} =>
        LET n == Len(issued)
            last == Len(waypoints)
        IN  /\ cartMode = "torque" /\ torqueTarget = 0
            /\ n >= 6
            /\ issued[n] = [cmd |-> "setTorque", arg |-> 0, wp |-> last]
            /\ issued[n - 1].cmd = "setTorqueMode"
            /\ issued[n - 2] = [cmd |-> "getState", arg |-> 0, wp |-> last]
            /\ issued[n - 3] = [cmd |-> "getVelocity", arg |-> 0, wp |-> last]
            /\ issued[n - 4] = [cmd |-> "getPositionMm", arg |-> 0, wp |-> last]
            /\ issued[n - 5].cmd = "setVelocityLimit" /\ issued[n - 5].wp = last
            /\ \A i \in 1..(n - 2) :
                    issued[i].cmd \notin {"setTorqueMode", "setTorque"}

\* C14 witness: a run over a trajectory long enough for the filter has returned.
C14_Witness ==
    /\ epc = "returned"
    /\ Len(waypoints) >= SavgolWindow
    /\ cartMode = "torque"

\* C15: at most one position target is issued in a run, it is the x of the
\* last waypoint, and once the loop has begun exactly one was issued and the
\* position target register holds it.
C15_OnePositionTarget ==
    LET targets == {i \in 1..Len(issued) : issued[i].cmd = "setPositionMm"}
        goal == waypoints[Len(waypoints)].x
    IN  /\ Cardinality(targets) <= 1
        /\ \A i \in targets : issued[i].arg = goal
        /\ wpIdx >= 2 => (Cardinality(targets) = 1 /\ positionTarget = goal)

\* C15 witness: a run has passed an intermediate waypoint whose x differs
\* from the last waypoint's x.
C15_Witness ==
    /\ wpIdx >= 3
    /\ waypoints[2].x # waypoints[Len(waypoints)].x
    /\ positionTarget = waypoints[Len(waypoints)].x

\* the velocity-limit writes of the loop, oldest first (the write made before
\* the loop, of the initial limit, has waypoint index 0)
IsLoopUpdate(call) == call.cmd = "setVelocityLimit" /\ call.wp > 0

LoopUpdates(calls) == SelectSeq(calls, IsLoopUpdate)

\* C16: the loop writes the velocity limit for the waypoints after the first
\* one by one in their order, each once and with |v| of its waypoint, never
\* while the time elapsed since t0 is less than the waypoint's t, and when the
\* loop has ended it has written one for every waypoint after the first.
C16_VelocityLimitSchedule ==
    [][/\ (epc = "setVelocity" /\ epc' = "logTime") =>
                wall - t0 >= waypoints[wpIdx].t
       /\ \A n \in 1..Len(LoopUpdates(issued')) :
            /\ LoopUpdates(issued')[n].wp = n + 1
            /\ LoopUpdates(issued')[n].arg = VelocityLimitOf(waypoints[n + 1].v)
       /\ epc' \in ExecLoopDonePcs =>
                Len(LoopUpdates(issued')) = Len(waypoints) - 1]_vars

\* C16 witness: the limit of the last of three or more waypoints has just been
\* written, later than the waypoint was due.
C16_Witness ==
    /\ epc = "logTime"
    /\ Len(waypoints) >= 3
    /\ wpIdx = Len(waypoints)
    /\ wall - t0 > waypoints[wpIdx].t
    /\ velocityLimit = VelocityLimitOf(waypoints[wpIdx].v)

\* the place in `issued` of the loop's velocity-limit write for waypoint w
UpdateAt(w) ==
    CHOOSE i \in 1..Len(issued) : IsLoopUpdate(issued[i]) /\ issued[i].wp = w

\* C17: when the loop has ended, the lists t, x, v, theta hold the boundary
\* sample (t = 0, the position read before the position target was issued,
\* the literals 0 for velocity and angle) followed by one sample per waypoint
\* after the first, in order, and the three reads of a waypoint's sample come
\* right after that waypoint's velocity-limit write, before the next one.
C17_RecordedSeries ==
    epc \in ExecLoopDonePcs =>
        /\ Len(tSeries) = Len(waypoints)
        /\ Len(xSeries) = Len(waypoints)
        /\ Len(vSeries) = Len(waypoints)
        /\ Len(thSeries) = Len(waypoints)
        /\ tSeries[1] = 0
        /\ xSeries[1] = Entry(0, "axis")
        /\ vSeries[1] = Entry(0, "zero")
        /\ thSeries[1] = Entry(0, "zero")
        /\ \E i, j \in 1..Len(issued) :
                /\ i < j
                /\ issued[i] = [cmd |-> "getPositionMm", arg |-> 0, wp |-> 0]
                /\ issued[j].cmd = "setPositionMm"
        /\ \A w \in 2..Len(waypoints) :
                /\ xSeries[w] = Entry(w - 1, "axis")
                /\ vSeries[w] = Entry(w - 1, "axis")
                /\ thSeries[w] = Entry(w - 1, "sensor")
                /\ issued[UpdateAt(w) + 1] = [cmd |-> "getPositionMm", arg |-> 0, wp |-> w]
                /\ issued[UpdateAt(w) + 2] = [cmd |-> "getVelocity", arg |-> 0, wp |-> w]
                /\ issued[UpdateAt(w) + 3] = [cmd |-> "getState", arg |-> 0, wp |-> w]

\* C17 witness: the loop over a trajectory of three waypoints has ended with
\* three recorded samples.
C17_Witness ==
    /\ epc = "setTorqueMode"
    /\ Len(waypoints) = 3
    /\ Len(tSeries) = 3 /\ Len(thSeries) = 3

\* C18: in the returned tuple the timestamps, rounded to microseconds, are
\* pairwise distinct and are all the rounded timestamps that were recorded;
\* each returned row is the first recorded row of its timestamp; and the six
\* series have the same length and hold, place by place, values of that row.
C18_ReturnedRows ==
    epc = "returned" =>
        /\ \A f \in {"x", "v", "a", "theta", "omega"} : Len(result[f]) = Len(result.t)
        /\ \A i, j \in 1..Len(result.t) :
                i # j => Round6(result.t[i]) # Round6(result.t[j])
        /\ \A m \in 1..Len(tSeries) :
                \E i \in 1..Len(result.t) : Round6(result.t[i]) = Round6(tSeries[m])
        /\ \A i \in 1..Len(result.t) :
                \E m \in 1..Len(tSeries) :
                    /\ \A j \in 1..(m - 1) : Round6(tSeries[j]) # Round6(tSeries[m])
                    /\ result.t[i] = tSeries[m]
                    /\ result.x[i] = xSeries[m]
                    /\ result.v[i] = vSeries[m]
                    /\ result.a[i] = thSeries[m]
                    /\ result.theta[i] = thSeries[m]
                    /\ result.omega[i] = thSeries[m]

\* C18 witness: a run has returned fewer rows than it recorded, among them
\* two recorded at different clock readings within one microsecond.
C18_Witness ==
    /\ epc = "returned"
    /\ Len(result.t) >= 2
    /\ Len(result.t) < Len(tSeries)
    /\ \E m, j \in 1..Len(tSeries) :
            tSeries[m] # tSeries[j] /\ Round6(tSeries[m]) = Round6(tSeries[j])

\* the positions at which executeWaypointsPosition calls the axis or the sensor
ExecCallPcs ==
    {"idle", "readStart", "resetBuffer", "setAccel", "setVelocity0", "setPosition",
     "setVelocity", "readPosition", "readVelocity", "readSensor", "setTorqueMode",
     "setTorque"}

\* C19: a call of the executor either returns, and is then recorded once, or
\* its exception ends executeWaypointsPosition: the call is not made again,
\* and after the exception no register of the axis is written any more.
C19_FailurePropagates ==
    [][/\ (epc \in ExecCallPcs /\ epc' # epc) =>
            \/ Len(issued') = Len(issued) + 1
            \/ epc' = "raised" /\ issued' = issued /\ axisVars' = axisVars
       /\ epc = "raised" =>
            (epc' = "raised" /\ issued' = issued /\ axisVars' = axisVars)]_vars

\* C19 witness: a call failed inside the loop with waypoints still to come;
\* the cart is in position mode as the failure left it.
C19_Witness ==
    /\ epc = "raised"
    /\ wpIdx >= 2 /\ wpIdx < Len(waypoints)
    /\ cartMode = "position"
    /\ Len(LoopUpdates(issued)) < Len(waypoints) - 1

\* buf is k >= 1 frames back to back: every 13th byte is the start byte
IsFrames(buf) ==
    /\ Len(buf) >= PacketSize
    /\ Len(buf) % PacketSize = 0
    /\ \A i \in 1..Len(buf) : i % PacketSize = 1 => buf[i] = StartByte

\* the three values of the last frame of buf
LastFrameValues(buf) ==
    LET payload == SubSeq(buf, Len(buf) - PayloadSize + 1, Len(buf))
    IN  <<Unpack(payload, 1) - angle_offset, Unpack(payload, 2),
          Unpack(payload, 3) - wind_offset>>

\* C20: a getStatus call on a buffer that is exactly k >= 1 frames back to
\* back returns the values of the last frame, and a getStatus call that
\* follows with no new bytes returns the same values again.
C20_LastFrameDecoded ==
    [][GetStatus =>
        /\ IsFrames(buffer \o incoming) => ret' = LastFrameValues(buffer \o incoming)
        /\ (buffer = <<>> /\ incoming = <<>>) => ret' = ret]_vars

\* C21: a getStatus call on a buffer that is fewer than a packet's worth of
\* garbage bytes followed by one frame, and nothing after it, returns the
\* values of that frame and leaves the buffer empty.
C21_Resync ==
    [][GetStatus =>
        LET buf == buffer \o incoming
            n == Len(buf)
        IN  (/\ n >= PacketSize /\ n < 2 * PacketSize
             /\ buf[n - PayloadSize] = StartByte)
                => /\ ret' = LastFrameValues(buf)
                   /\ buffer' = <<>>]_vars

\* the place of the last byte of the last match of the pattern in buf,
\* matches found from left to right beginning at place `from`; `sofar` when
\* there is none
RECURSIVE LastMatchEnd(_, _, _)
LastMatchEnd(buf, from, sofar) ==
    LET starts == {i \in from..Len(buf) : MatchesAt(buf, i)}
    IN  IF starts = {} THEN sofar
        ELSE LET i == CHOOSE k \in starts : \A m \in starts : k <= m
             IN  LastMatchEnd(buf, i + PacketSize, i + PayloadSize)

\* C22: initially the values are the zero frame; a getStatus call on a
\* buffer without a match leaves the buffer as it is and returns the values
\* as they were before the call; every getStatus call returns three values.
C22_NoMatchCarriesForward ==
    /\ <<angle, omega, windspeed>> = <<0, 0, 0>>
    /\ [][GetStatus =>
            /\ ret' \in Int \X Int \X Int
            /\ FindAll(buffer \o incoming, 1) = <<>> =>
                    /\ buffer' = buffer \o incoming
                    /\ ret' = <<angle, omega, windspeed>>]_vars

\* C22 witness: before any frame was decoded, a call without a match has
\* returned the zero frame and kept the bytes it read.
C22_Witness ==
    /\ ret = <<0, 0, 0>>
    /\ incoming = <<>>
    /\ buffer # <<>>
    /\ FindAll(buffer, 1) = <<>>

\* C23: a getStatus call that finds a match leaves as the buffer exactly the
\* bytes that follow the last match.
C23_BufferIsSuffixAfterLastMatch ==
    [][GetStatus =>
        LET buf == buffer \o incoming
        IN  FindAll(buf, 1) # <<>> =>
                buffer' = SubSeq(buf, LastMatchEnd(buf, 1, 0) + 1, Len(buf))]_vars

\* C24: a buffer of at least a packet's length that begins with the start
\* byte is matched at its first place, whatever its payload bytes are.
C24_EveryPayloadAccepted ==
    LET buf == buffer \o incoming
    IN  (Len(buf) >= PacketSize /\ buf[1] = StartByte) => MatchesAt(buf, 1)

\* C25: with the hoist anywhere within its position limits, the rope length
\* getRopeLength returns lies between 0 and hoist_max_length.
C25_RopeLengthWithinBounds ==
    [][GetRopeLength =>
        /\ convRet'.val >= 0
        /\ convRet'.val <= Mm(hoist_max_length)]_vars

\* C26: on either axis, movePositionMm called with the value getPositionMm
\* has just returned writes the position the axis is at as the target.
C26_UnitRoundTrip ==
    [][\A vel \in MoveVelocities :
        /\ (convRet.op = "cartGetPositionMm" /\ CartMovePositionMm(convRet.val, vel))
                => positionTarget' = cartActual
        /\ (convRet.op = "hoistGetPositionMm" /\ HoistMovePositionMm(convRet.val, vel))
                => hoistTarget' = hoistActual]_vars

\* C30: for every whole p in 0..position_limit_mm, the target
\* hoistStepper.movePositionMm(p) writes lies within the hoist's count
\* limits, and getPositionMm at that target is p to within one count.
C30_HoistSignConvention ==
    [][\A p \in 0..PositionLimitMm, vel \in MoveVelocities :
        HoistMovePositionMm(Mm(p), vel) =>
            /\ hoistTarget' >= -PositionLimitCounts(HoistPulleyCircumference)
            /\ hoistTarget' <= 0
            /\ Abs(HoistStepperGetPositionMm(hoistTarget') - Mm(p))
                    < HoistPulleyCircumference]_vars

\* C27: once resume() has been called on a paused, running logger, and while
\* the logger stays running, not paused and its queue has room, no more
\* than one logging interval passes before the sampler enqueues a sample.
C27_ResumeWithinInterval ==
    (running /\ ~paused /\ resumedAt >= 0 /\ ~QueueFull(queue))
        => wall - resumedAt <= LoggingInterval

\* the steps of writer g other than its store_state step
WriterOtherStep(g) ==
    \/ WriterCheckRunning(g)
    \/ WriterWaitPaused(g)
    \/ WriterCheckEmpty(g)
    \/ WriterGet(g)

C29_ConfiguredBeforeTarget ==
    [][(epc = "setPosition" /\ epc' = "wait") =>
        LET v0 == VelocityLimitOf(waypoints[2].v)
            n == Len(issued)
        IN  /\ cartMode = "position"
            /\ accelLimit = AccelMax
            /\ velocityLimit = v0
            /\ \A i \in 1..n : issued[i].cmd # "setPositionMm"
            /\ issued'[n + 1].cmd = "setPositionMm"
            /\ \E a, b, c \in 1..n :
                /\ a < b /\ b < c
                /\ issued[a].cmd = "setPositionMode"
                /\ issued[b].cmd = "setAccelLimit" /\ issued[b].arg = AccelMax
                /\ issued[c].cmd = "setVelocityLimit" /\ issued[c].arg = v0]_vars

\* C29 witness: the position target has just been issued, under a velocity
\* limit and an acceleration limit other than those the run began with.
C29_Witness ==
    /\ epc = "wait" /\ wpIdx = 2
    /\ issued[Len(issued)].cmd = "setPositionMm"
    /\ velocityLimit = VelocityLimitOf(waypoints[2].v)
    /\ velocityLimit # 6000
    /\ accelLimit = AccelMax

\* C31: while the logger is paused its running flag reads as not set, and
\* after resume() the running flag reads as set again: pause() of a running
\* logger leaves the running flag clear, and resume() of a logger that was
\* started and not stopped since leaves it set.
C31_RunningFollowsPause ==
    [][/\ (Pause /\ running) => ~running'
       /\ (Resume /\ running) => running']_vars

\* C32: after zeroWind() the wind offset equals the raw wind speed of the
\* most recent sensor reading, for any prior offset and whether or not a new
\* frame arrived since the previous decode (so a second zeroWind() in a row
\* leaves the offset where the first put it).
C32_ZeroWindSetsOffsetToRaw ==
    [][ZeroWind => wind_offset' = rawWind']_vars

\* C33: generateTrajectory returns only a payload that was published on
\* trajectory/response/<request_id> for the request id of this call, and never
\* the server's response to another call; a call that ended while nothing
\* had been published on its reply topic ended with TimeoutError.
C33_OnlyOwnResponse ==
    \A c \in Clients :
        /\ outcome[c].kind = "returned" =>
            /\ [topic |-> ReplyTopic(request_id[c]),
                payload |-> Pickle(outcome[c].val)] \in published
            /\ outcome[c].val.call \in {0, outcome[c].call}
        /\ (/\ outcome[c].kind # "none"
            /\ \A p \in published : p.topic # ReplyTopic(request_id[c]))
                => outcome[c].kind = "TimeoutError"

\* C33 witness: with two requests outstanding the server's responses were
\* delivered, and one thread has returned the response to its own request
\* while the other thread's call, made earlier, timed out.
C33_Witness ==
    \E c, d \in Clients :
        /\ outcome[c].kind = "returned" /\ outcome[c].val.call = outcome[c].call
        /\ outcome[d].kind = "TimeoutError" /\ outcome[d].call < outcome[c].call
        /\ published # {}

\* C34: flush() always returns, and neither flush() nor the writer blocks
\* forever in its get on an emptied queue, also while the logger is paused:
\* while no sampler can produce (each has terminated or waits in its paused
\* loop of the paused logger), neither flush_buffer nor a writer is at its
\* blocking get with the queue empty.
C34_GetNeverStuck ==
    (\A g \in Gens : ~SamplerAlive(g) \/ (paused /\ spc[g] = "chkPaused"))
        => /\ ~(cpc = "flushGet" /\ QueueEmpty(queue))
           /\ \A g \in Gens : ~(wpc[g] = "get" /\ QueueEmpty(queue))

\* C35: stop() returns with both workers terminated under every interleaving
\* with pause() and resume() calls of another thread: a pause() that takes
\* effect after stop() has begun cannot keep a worker alive and stop()
\* waiting; so while stop_logging waits in a join, no thread it has yet to
\* join waits in its paused loop with the paused flag set.
C35_PauseCannotHoldStop ==
    paused =>
        /\ cpc = "stopJoinL" =>
              (logging_thread = 0 \/ spc[logging_thread] # "chkPaused")
        /\ cpc \in {"stopJoinL", "stopJoinW"} =>
              (writer_thread = 0 \/ wpc[writer_thread] # "chkPaused")

\* C36: at most one sampler worker and at most one writer worker are alive
\* at any time, and when a stop() returns no worker that was ever started
\* is still alive.
C36_OneWorkerPair ==
    [][/\ Cardinality({g \in Gens : SamplerAlive(g)'}) <= 1
       /\ Cardinality({g \in Gens : WriterAlive(g)'}) <= 1
       /\ StopReturn => \A g \in Gens : ~SamplerAlive(g)' /\ ~WriterAlive(g)']_vars

\* C37: each enqueued sample is persisted at most once: no sample is
\* contained in two store_state calls that both returned normally, whether
\* the calls were made by a writer worker or by flush().
C37_PersistedAtMostOnce ==
    \A i \in SampleIds : stored[i] <= 1

\* C37 witness: a sample was handed to store_state twice, the first call
\* raised and the second returned, and another sample was handed over once,
\* in a call that returned.
C37_Witness ==
    \E i, j \in SampleIds :
        /\ i # j
        /\ handed[i] = 2 /\ stored[i] = 1
        /\ handed[j] = 1 /\ stored[j] = 1
        /\ nFail = 1

\* C38: getState releases get_state_lock on every exit path: a thread that is
\* not inside the with block does not hold the lock, also after a call in
\* which an axis read or the sensor decode raised, so that a later call of
\* any thread can acquire it.
C38_LockReleasedOnEveryExit ==
    \A c \in Callers : gpc[c] \notin ReadPcs => get_state_lock # c

\* C38 witness: a call of one thread raised after it had made a read under
\* the lock, and a call of the other thread has acquired the lock later and
\* made its four axis reads.
C38_Witness ==
    \E c, d \in Callers :
        /\ gpc[c] = "idle" /\ snapshot[c] = <<>> /\ Len(stamps[c]) \in 1..4
        /\ gpc[d] = "decode" /\ get_state_lock = d /\ Len(stamps[d]) = 4
        /\ stamps[d][1] > stamps[c][1]

\* C39: with several threads calling getStatus on one decoder, of two calls
\* of which one returns before the other begins, the later call never returns
\* a frame that arrived earlier in the stream than the frame the earlier call
\* returned, and no frame's bytes are taken out of the buffer by two calls.
C39_DecodeOrderAndOnce ==
    /\ \A t \in DecThreads : dpc[t] = "return" => got[t] >= floor[t]
    /\ \A k \in frameChunks : cuts[k] <= 1

====
